---- MODULE Spec2Model ----
(***************************************************************************)
(* Model of the OMRChecker serverless web pipeline orchestration:          *)
(*   - workers/image-worker.js : the background worker (message handler,   *)
(*     processing queue, per-sheet pipeline, native buffer lifetimes)      *)
(*   - assets/js/batch-processor.js : BatchProcessor (batch loop)          *)
(*   - serverless_web/assets/js/app.js : OMRApp request/response pairing   *)
(***************************************************************************)
EXTENDS Integers, Sequences, FiniteSets, TLC

VARIABLES
    \* ---- worker globals (image-worker.js:7-12) ----
    isOpenCVReady,      \* let isOpenCVReady
    initState,          \* initOpenCV: interval / timeout handles
    processingQueue,    \* let processingQueue
    isProcessing,       \* let isProcessing (worker)
    workerPc,           \* "idle" | "await": processNextInQueue suspended at its await
    currentTemplate,    \* let currentTemplate
    markerImage,        \* let markerImage: NoMat or the identity of the stored Mat
    matCounter,         \* number of marker Mats created so far (Mat identity)
    \* ---- channels ----
    inbox,              \* messages posted to the worker, not yet handled
    outbox,             \* messages posted by the worker, not yet dispatched
    \* ---- BatchProcessor fields (batch-processor.js:7-22) ----
    files, template, marker, results, bpIsProcessing, currentIndex,
    loops,              \* the startBatch invocations and their local variables
    listeners,          \* worker.addEventListener('message', ...) registrations
    \* ---- OMRApp fields (app.js) ----
    messageId, pendingRequests,
    \* ---- time (Date.now(), setTimeout) ----
    now, ticks,
    \* ---- observation (history) ----
    started,            \* worker: requests whose processing began, in order
    finished,           \* worker: requests that got their terminal message, in order
    submitted,          \* caller: requests posted to the worker, in order
    delivered,          \* caller: requests settled (resolved or rejected), in order
    picked,             \* the files the user has selected for the batch
    \* ---- buffer-lifetime study of one processing step ----
    study

vars == <<isOpenCVReady, initState, processingQueue, isProcessing, workerPc,
          currentTemplate, markerImage, matCounter, inbox, outbox,
          files, template, marker, results, bpIsProcessing, currentIndex,
          loops, listeners, messageId, pendingRequests, now, ticks,
          started, finished, submitted, delivered, study, picked>>

(***************************************************************************)
(* Bounds of the model                                                     *)
(***************************************************************************)
MaxFiles == 2
MaxStarts == 2
MaxAppRequests == 2
MaxTicks == 1

\* the longest field-label token that is expanded
MaxTokenLen == 6

\* the most bubble means of a sheet whose thresholds are computed
MaxMeans == 7

\* the most field blocks of a template document
MaxBlocks == 2

\* the greatest coordinate of a corner point
MaxCoord == 2

\* the most callbacks registered on an OpenCVLoader
MaxCallbacks == 2

(***************************************************************************)
(* Program constants                                                       *)
(***************************************************************************)
TIMEOUT_MS == 30000

NoMat == 0
NoTemplate == "null"
NoFile == "null"

(***************************************************************************)
(* Generic helpers                                                         *)
(***************************************************************************)
Range(s) == {s[i] : i \in 1..Len(s)}

Max2(a, b) == IF a >= b THEN a ELSE b

(***************************************************************************)
(* The per-sheet pipeline of the worker as a list of operations.           *)
(* An operation is one native call of the source together with the         *)
(* buffers created just before it (alloc: "new cv.Mat()" preceding the     *)
(* call), the buffers the call returns (result), the explicit .delete()    *)
(* calls that follow it (free) and the push onto a tracking list (list,    *)
(* track).  Loops over contours, quadrants, scales and bubbles are         *)
(* represented by one iteration: every iteration allocates, tracks and     *)
(* frees the same way.                                                     *)
(***************************************************************************)
Templates == {"valid", "valid_qr", "unknown_format"}

\* parseTemplate: does the document carry fieldBlocks or layout.regions
TemplateParses(t) == t \in {"valid", "valid_qr"}

\* a field block that detectAndParseAnswers treats as a QR block
TemplateHasQR(t) == t = "valid_qr"

Call(n, a, r, f, l, t) ==
    [name |-> n, kind |-> "call", alloc |-> a, result |-> r, free |-> f,
     list |-> l, track |-> t, scope |-> {}, percent |-> 0, stage |-> ""]

Progress(p) ==
    [name |-> "sendProgress", kind |-> "progress", alloc |-> {}, result |-> {},
     free |-> {}, list |-> "", track |-> {}, scope |-> {}, percent |-> p,
     stage |-> ""]

Finally(l) ==
    [name |-> "finally", kind |-> "finally", alloc |-> {}, result |-> {},
     free |-> {}, list |-> l, track |-> {}, scope |-> {}, percent |-> 0,
     stage |-> ""]

Catch(n, sc) ==
    [name |-> n, kind |-> "catch", alloc |-> {}, result |-> {},
     free |-> {}, list |-> "", track |-> {}, scope |-> sc, percent |-> 0,
     stage |-> ""]

\* the pipeline stage the operations of a function belong to
InStage(ops, stage) == [i \in 1..Len(ops) |-> [ops[i] EXCEPT !.stage = stage]]

OpNames(ops) == {ops[i].name : i \in 1..Len(ops)}

preprocessImage ==
    << Call("pre.cvtColor", {"grayscale"}, {}, {}, "", {}),
       Call("pre.GaussianBlur", {"blurred"}, {}, {}, "", {}),
       Call("pre.adaptiveThreshold", {"binary"}, {}, {}, "", {}) >>

\* hasBoundary: the sheet shows a four-vertex contour of more than 10% of the image
correctPerspective(hasBoundary) ==
    << Call("cp.cvtColor", {"cp.gray"}, {}, {}, "cp", {"cp.gray"}),
       Call("cp.GaussianBlur", {"cp.blurred"}, {}, {}, "cp", {"cp.blurred"}),
       Call("cp.Canny", {"cp.edges"}, {}, {}, "cp", {"cp.edges"}),
       Call("cp.getStructuringElement", {}, {"cp.kernel"}, {}, "cp", {"cp.kernel"}),
       Call("cp.dilate", {"cp.dilated"}, {}, {}, "cp", {"cp.dilated"}),
       Call("cp.morphologyEx", {"cp.closed"}, {}, {}, "cp", {"cp.closed"}),
       Call("cp.findContours", {"cp.contours", "cp.hierarchy"}, {}, {},
            "cp", {"cp.hierarchy"}),
       Call("cp.approxPolyDP", {"cp.contour", "cp.approx"}, {},
            IF hasBoundary THEN {"cp.contour"} ELSE {"cp.contour", "cp.approx"},
            "", {}),
       Call("cp.contours.delete", {}, {}, {"cp.contours"}, "", {}),
       Call("cp.checkBoundary", {}, {}, {}, "", {}),
       Call("cp.sortCorners", {}, {}, {"cp.approx"}, "", {}),
       Call("cp.matFromArray.src", {}, {"cp.srcPoints"}, {}, "cp", {"cp.srcPoints"}),
       Call("cp.matFromArray.dst", {}, {"cp.dstPoints"}, {}, "cp", {"cp.dstPoints"}),
       Call("cp.getPerspectiveTransform", {}, {"cp.M"}, {}, "cp", {"cp.M"}),
       Call("cp.warpPerspective", {"corrected"}, {}, {}, "", {}),
       Call("cp.clone", {}, {"visualization"}, {}, "", {}),
       Call("cp.draw", {}, {}, {}, "", {}),
       Finally("cp") >>

correctPerspectiveWithMarkers(hasMarker, hasBoundary) ==
    IF ~hasMarker
    THEN correctPerspective(hasBoundary) \o << Finally("mk") >>
    ELSE
    << Call("mk.cvtColor", {"mk.gray"}, {}, {}, "mk", {"mk.gray"}),
       Call("mk.getStructuringElement", {}, {"mk.kernel"}, {}, "mk", {"mk.kernel"}),
       Call("mk.erode", {"mk.eroded"}, {}, {}, "mk", {"mk.eroded"}),
       Call("mk.subtract", {"mk.imageErodedSub"}, {}, {}, "mk", {"mk.imageErodedSub"}),
       Call("mk.roi", {}, {"mk.roi"}, {}, "mk", {"mk.roi"}),
       Call("mk.resize", {"mk.rescaledMarker"}, {}, {}, "", {}),
       Call("mk.matchTemplate", {"mk.result"}, {}, {}, "", {}),
       Call("mk.minMaxLoc", {}, {}, {"mk.result", "mk.rescaledMarker"}, "", {}),
       Call("mk.validateMatch", {}, {}, {}, "", {}),
       Call("mk.orderPoints", {}, {}, {}, "", {}),
       Call("mk.matFromArray.src", {}, {"mk.srcPoints"}, {}, "mk", {"mk.srcPoints"}),
       Call("mk.matFromArray.dst", {}, {"mk.dstPoints"}, {}, "mk", {"mk.dstPoints"}),
       Call("mk.getPerspectiveTransform", {}, {"mk.M"}, {}, "mk", {"mk.M"}),
       Call("mk.warpPerspective", {"corrected"}, {}, {}, "", {}),
       Call("mk.clone", {}, {"visualization"}, {}, "", {}),
       Call("mk.draw", {}, {}, {}, "", {}),
       Finally("mk") >>

detectQRCode ==
    << Call("qr.roi", {}, {"qr.region"}, {}, "", {}),
       Call("qr.cvtColor", {"qr.gray"}, {}, {}, "", {}),
       Call("qr.detectAndDecode", {}, {}, {"qr.region", "qr.gray"}, "", {}),
       Catch("qr.catch", {"qr.roi", "qr.cvtColor", "qr.detectAndDecode"}) >>

detectAndParseAnswers(t) ==
    InStage(<< Call("det.parseTemplate", {}, {}, {}, "", {}) >>, "Normalizing")
    \o InStage(
         (IF TemplateHasQR(t) THEN detectQRCode ELSE <<>>)
         \o << Call("det.cvtColor", {"det.gray"}, {}, {}, "det", {"det.gray"}),
               Call("det.roi", {}, {"det.grayRoi"}, {}, "", {}),
               Call("det.mean", {}, {}, {"det.grayRoi"}, "", {}),
               Call("det.clone", {}, {"omr.visualization"}, {}, "", {}),
               Call("det.draw", {}, {}, {}, "", {}),
               Finally("det") >>, "Detecting")

\* matToImageData of a one-channel Mat goes through a temporary RGBA Mat
matToImageData1(n) ==
    << Call(n, {"rgba"}, {}, {"rgba"}, "", {}) >>

processImage(t, hasMarker, hasBoundary) ==
    << Call("ready", {}, {}, {}, "", {}),
       Progress(0), Progress(10),
       Call("matFromImageData", {}, {"src"}, {}, "processedMats", {"src"}),
       Progress(20) >>
    \o preprocessImage
    \o << Call("pre.return", {}, {}, {}, "processedMats",
               {"grayscale", "blurred", "binary"}),
          Progress(40) >>
    \o InStage(correctPerspectiveWithMarkers(hasMarker, hasBoundary), "Aligning")
    \o << Call("persp.return", {}, {}, {}, "processedMats",
               {"corrected", "visualization"}) >>
    \o (IF t # NoTemplate
        THEN << Progress(60) >> \o detectAndParseAnswers(t)
             \o << Call("det.return", {}, {}, {}, "processedMats",
                        {"omr.visualization"}) >>
        ELSE <<>>)
    \o << Progress(80) >>
    \o matToImageData1("out.grayscale") \o matToImageData1("out.blurred")
    \o matToImageData1("out.binary")
    \o << Progress(100),
          Call("postResult", {}, {}, {}, "", {}),
          Finally("processedMats") >>

processOMRBatch(t, hasMarker, hasBoundary) ==
    << Call("ready", {}, {}, {}, "", {}),
       Call("matFromImageData", {}, {"src"}, {}, "processedMats", {"src"}) >>
    \o preprocessImage
    \o << Call("pre.return", {}, {}, {}, "processedMats",
               {"grayscale", "blurred", "binary"}) >>
    \o InStage(correctPerspectiveWithMarkers(hasMarker, hasBoundary), "Aligning")
    \o << Call("persp.return", {}, {}, {}, "processedMats",
               {"corrected", "visualization"}) >>
    \o (IF t # NoTemplate
        THEN detectAndParseAnswers(t)
             \o << Call("det.return", {}, {}, {}, "processedMats",
                        {"omr.visualization"}) >>
        ELSE <<>>)
    \o << Call("postResult", {}, {}, {}, "", {}),
          Finally("processedMats") >>

(***************************************************************************)
(* Running a list of operations.  st.thrown is the operation that threw    *)
(* and has not been caught; operations after a throw are skipped up to     *)
(* the enclosing catch, finally blocks always run.                         *)
(***************************************************************************)
Lists == {"processedMats", "cp", "mk", "det"}

StartState ==
    [live |-> {}, lists |-> [l \in Lists |-> {}], thrown |-> "", error |-> "",
     progress |-> <<>>, swallowed |-> {}, stages |-> <<>>]

EnterStage(stages, stage) ==
    IF stage = "" \/ (Len(stages) > 0 /\ stages[Len(stages)] = stage)
    THEN stages ELSE Append(stages, stage)

StepOp(op, st, fails) ==
    CASE op.kind = "call" ->
           IF st.thrown # "" THEN st
           ELSE IF op.name \in fails
                THEN [st EXCEPT !.live = @ \cup op.alloc,
                                !.thrown = op.name, !.error = op.name,
                                !.stages = EnterStage(@, op.stage)]
                ELSE [st EXCEPT
                        !.live = ((@ \cup op.alloc) \cup op.result) \ op.free,
                        !.stages = EnterStage(@, op.stage),
                        !.lists = IF op.list = "" THEN @
                                  ELSE [@ EXCEPT ![op.list] = @ \cup op.track]]
      [] op.kind = "progress" ->
           IF st.thrown # "" THEN st
           ELSE [st EXCEPT !.progress = Append(@, op.percent)]
      [] op.kind = "finally" ->
           [st EXCEPT !.live = @ \ st.lists[op.list]]
      [] op.kind = "catch" ->
           IF st.thrown \in op.scope
           THEN [st EXCEPT !.thrown = "", !.error = "",
                           !.swallowed = @ \cup {st.thrown}]
           ELSE st

RECURSIVE RunFrom(_, _, _, _)
RunFrom(ops, i, st, fails) ==
    IF i > Len(ops) THEN st
    ELSE LET next == StepOp(ops[i], st, fails)
         IN \* the step is carried out before the following one is looked at
            IF next.thrown = "" THEN RunFrom(ops, i + 1, next, fails)
            ELSE RunFrom(ops, i + 1, next, fails)

RunOps(ops, fails) == RunFrom(ops, 1, StartState, fails)

(***************************************************************************)
(* Sheets.  A sheet is an image file; its fault says what processing it    *)
(* runs into: "none", "blank" (a white image: neither a sheet boundary     *)
(* nor markers can be found), "no_boundary", "no_marker", or the name of   *)
(* the native call that throws on it (an allocation failure, a bad size).  *)
(***************************************************************************)
NoSheet == [name |-> 0, fault |-> "none"]

HasBoundary(sheet) == sheet.fault \notin {"blank", "no_boundary"}

HasMarkers(sheet) == sheet.fault \notin {"blank", "no_marker"}

\* the operations that throw for this sheet in this worker state
FailSet(sheet, t, ready) ==
    (IF ready THEN {} ELSE {"ready"})
    \cup (IF HasBoundary(sheet) THEN {} ELSE {"cp.checkBoundary"})
    \cup (IF HasMarkers(sheet) THEN {} ELSE {"mk.validateMatch"})
    \cup (IF t # NoTemplate /\ ~TemplateParses(t) THEN {"det.parseTemplate"} ELSE {})
    \cup {sheet.fault}

(***************************************************************************)
(* Message ids.  OMRApp numbers its requests (++this.messageId); the       *)
(* BatchProcessor uses Date.now() for a sheet and `marker_${Date.now()}`   *)
(* for the marker; the worker sends some messages with id null.            *)
(***************************************************************************)
NoId == [kind |-> "null", n |-> 0]

AppId(n) == [kind |-> "num", n |-> n]

DateNow == 1000000 + now

ToWorker(type, id, sheet, t, markerFile) ==
    [type |-> type, id |-> id, sheet |-> sheet, template |-> t,
     markerFile |-> markerFile]

NoBody == [sheet |-> 0, marker |-> NoMat, template |-> NoTemplate, omr |-> FALSE]

\* sendMessage / self.postMessage
FromWorker(type, id, error, body) ==
    [type |-> type, id |-> id, error |-> error, body |-> body]

sendError(error, id) == FromWorker("error", id, error, NoBody)

(***************************************************************************)
(* The worker                                                              *)
(***************************************************************************)
\* what the pipeline returns for a sheet that went through
ResultBody(sheet, t) ==
    [sheet |-> sheet.name, marker |-> markerImage, template |-> t,
     omr |-> (t # NoTemplate)]

LogEntry(id, path, st, t) ==
    [id |-> id, path |-> path, stages |-> st.stages, progress |-> st.progress,
     error |-> st.thrown, leaked |-> st.live, template |-> t,
     marker |-> markerImage]

\* processImage(payload, id): the messages it posts
RunProcessImage(msg) ==
    LET st == RunOps(processImage(currentTemplate, markerImage # NoMat,
                                  HasBoundary(msg.sheet)),
                     FailSet(msg.sheet, currentTemplate, isOpenCVReady))
    IN [st |-> st,
        reply |-> IF st.thrown = ""
                  THEN FromWorker("result", msg.id, "",
                                  ResultBody(msg.sheet, currentTemplate))
                  ELSE sendError(st.thrown, msg.id)]

\* processOMRBatch(data): sets currentTemplate when the message carries one
RunProcessOMRBatch(msg) ==
    LET t == IF msg.template # NoTemplate /\ isOpenCVReady
             THEN msg.template ELSE currentTemplate
        st == RunOps(processOMRBatch(t, markerImage # NoMat, HasBoundary(msg.sheet)),
                     FailSet(msg.sheet, t, isOpenCVReady))
    IN [st |-> st, template |-> t,
        reply |-> IF st.thrown = ""
                  THEN FromWorker("omrComplete", msg.id, "", ResultBody(msg.sheet, t))
                  ELSE FromWorker("omrComplete", msg.id, st.thrown, NoBody)]

\* the head of the queue is read but not removed
processNextInQueue_NoShift(queue) ==
    IF queue = <<>>
    THEN /\ isProcessing' = FALSE
         /\ workerPc' = "idle"
         /\ processingQueue' = queue
         /\ UNCHANGED <<outbox, started, finished>>
    ELSE LET msg == Head(queue)
             run == RunProcessImage(msg)
         IN /\ isProcessing' = TRUE
            /\ processingQueue' = queue
            /\ workerPc' = "await"
            /\ outbox' = Append(outbox, run.reply)
            /\ started' = Append(started, LogEntry(msg.id, "queue", run.st,
                                                   currentTemplate))
            /\ finished' = Append(finished, msg.id)

\* processNextInQueue up to its await: takes the head of the queue and runs it
processNextInQueue(queue) ==
    IF queue = <<>>
    THEN /\ isProcessing' = FALSE
         /\ workerPc' = "idle"
         /\ processingQueue' = queue
         /\ UNCHANGED <<outbox, started, finished>>
    ELSE LET msg == Head(queue)
             run == RunProcessImage(msg)
         IN /\ isProcessing' = TRUE
            /\ processingQueue' = Tail(queue)
            /\ workerPc' = "await"
            /\ outbox' = Append(outbox, run.reply)
            /\ started' = Append(started, LogEntry(msg.id, "queue", run.st,
                                                   currentTemplate))
            /\ finished' = Append(finished, msg.id)

\* queueImageProcessing(payload, id)
queueImageProcessing(msg) ==
    IF ~isProcessing
    THEN processNextInQueue(Append(processingQueue, msg))
    ELSE /\ processingQueue' = Append(processingQueue, msg)
         /\ UNCHANGED <<isProcessing, workerPc, outbox, started, finished>>

\* initOpenCV(opencvPath, id): importScripts and start polling for self.cv
initOpenCV(msg) ==
    /\ initState' = [phase |-> "polling", id |-> msg.id]
    /\ UNCHANGED <<isOpenCVReady, processingQueue, isProcessing, workerPc,
                   currentTemplate, markerImage, matCounter, outbox,
                   started, finished>>

loadTemplate(msg) ==
    /\ IF isOpenCVReady
       THEN /\ currentTemplate' = msg.template
            /\ outbox' = Append(outbox, FromWorker("result", msg.id, "", NoBody))
       ELSE /\ outbox' = Append(outbox, sendError("not_ready", msg.id))
            /\ UNCHANGED currentTemplate
    /\ UNCHANGED <<isOpenCVReady, initState, processingQueue, isProcessing,
                   workerPc, markerImage, matCounter, started, finished>>

\* loadMarker: the stored marker Mat is deleted and replaced by a new one
loadMarker(msg) ==
    /\ IF isOpenCVReady /\ msg.markerFile = "ok"
       THEN /\ matCounter' = matCounter + 1
            /\ markerImage' = matCounter + 1
            /\ outbox' = Append(outbox, FromWorker("result", msg.id, "", NoBody))
       ELSE /\ outbox' = Append(outbox, sendError(
                   IF isOpenCVReady THEN "marker_failed" ELSE "not_ready", msg.id))
            /\ UNCHANGED <<matCounter, markerImage>>
    /\ UNCHANGED <<isOpenCVReady, initState, processingQueue, isProcessing,
                   workerPc, currentTemplate, started, finished>>

\* case PROCESS_OMR: processOMRBatch(e.data)
handleProcessOMR(msg) ==
    LET run == RunProcessOMRBatch(msg)
    IN /\ currentTemplate' = run.template
       /\ outbox' = Append(outbox, run.reply)
       /\ started' = Append(started, LogEntry(msg.id, "batch", run.st, run.template))
       /\ finished' = Append(finished, msg.id)
       /\ UNCHANGED <<isOpenCVReady, initState, processingQueue, isProcessing,
                      workerPc, markerImage, matCounter>>

\* self.onmessage: one message of the inbox is handled to completion
WorkerOnMessage ==
    /\ inbox # <<>>
    /\ workerPc = "idle"
    /\ LET msg == Head(inbox)
       IN /\ inbox' = Tail(inbox)
          /\ CASE msg.type = "init" -> initOpenCV(msg)
               [] msg.type = "load_template" -> loadTemplate(msg)
               [] msg.type = "load_marker" -> loadMarker(msg)
               [] msg.type = "process_image" ->
                    /\ queueImageProcessing(msg)
                    /\ UNCHANGED <<isOpenCVReady, initState, currentTemplate,
                                   markerImage, matCounter>>
               [] msg.type = "processOMR" -> handleProcessOMR(msg)
               [] OTHER ->
                    /\ outbox' = Append(outbox, sendError("unknown_type", msg.id))
                    /\ UNCHANGED <<isOpenCVReady, initState, processingQueue,
                                   isProcessing, workerPc, currentTemplate,
                                   markerImage, matCounter, started, finished>>
    /\ UNCHANGED <<files, template, marker, results, bpIsProcessing, currentIndex,
                   loops, listeners, messageId, pendingRequests,
                   now, ticks, submitted, delivered, study, picked>>

\* processNextInQueue after its await: the next task of the queue
WorkerResume ==
    /\ workerPc = "await"
    /\ processNextInQueue(processingQueue)
    /\ UNCHANGED <<isOpenCVReady, initState, currentTemplate, markerImage,
                   matCounter, inbox>>
    /\ UNCHANGED <<files, template, marker, results, bpIsProcessing, currentIndex,
                   loops, listeners, messageId, pendingRequests,
                   now, ticks, submitted, delivered, study, picked>>

\* initOpenCV's interval finds self.cv: ready, both timers cleared
OpenCVChecker ==
    /\ initState.phase = "polling"
    /\ isOpenCVReady' = TRUE
    /\ initState' = [initState EXCEPT !.phase = "ready"]
    /\ outbox' = outbox \o << FromWorker("ready", NoId, "", NoBody),
                              FromWorker("result", initState.id, "", NoBody) >>
    /\ UNCHANGED <<processingQueue, isProcessing, workerPc, currentTemplate,
                   markerImage, matCounter, inbox, started, finished>>
    /\ UNCHANGED <<files, template, marker, results, bpIsProcessing, currentIndex,
                   loops, listeners, messageId, pendingRequests,
                   now, ticks, submitted, delivered, study, picked>>

\* initOpenCV's 15 s timeout: an error without id, polling stops
OpenCVTimeout ==
    /\ initState.phase = "polling"
    /\ initState' = [initState EXCEPT !.phase = "failed"]
    /\ outbox' = Append(outbox, sendError("init_failed", NoId))
    /\ UNCHANGED <<isOpenCVReady, processingQueue, isProcessing, workerPc,
                   currentTemplate, markerImage, matCounter, inbox, started,
                   finished>>
    /\ UNCHANGED <<files, template, marker, results, bpIsProcessing, currentIndex,
                   loops, listeners, messageId, pendingRequests,
                   now, ticks, submitted, delivered, study, picked>>

(***************************************************************************)
(* BatchProcessor (main thread)                                            *)
(***************************************************************************)
SheetFaults == {"none", "blank"}

\* the image files the user may have selected: names are positions
FileLists == [1..MaxFiles -> SheetFaults]

SheetsOf(fl) == [i \in 1..Len(fl) |-> [name |-> i, fault |-> fl[i]]]

BatchTemplates == {"valid", "unknown_format"}

MarkerFiles == {"ok", "bad"}

\* what the user has selected in the batch form: the images, the template
\* document and the marker image
Selections ==
    [files : FileLists, template : BatchTemplates, marker : MarkerFiles]

LoopIds == 1..MaxStarts

IdleLoop ==
    [pc |-> "idle", i |-> 0, file |-> NoSheet, msgId |-> NoId, deadline |-> 0,
     seq |-> 0,
     markerFile |-> NoFile, submittedFiles |-> <<>>, final |-> <<>>, stopAt |-> -1]

\* the main-thread state a message handler or continuation works on
MainState ==
    [results |-> results, loops |-> loops, listeners |-> listeners,
     isProcessing |-> bpIsProcessing, currentIndex |-> currentIndex,
     delivered |-> delivered]

BatchTag(k, i) == [src |-> "batch", loop |-> k, n |-> i, type |-> "processOMR"]

AppTag(n, type) == [src |-> "app", loop |-> 0, n |-> n, type |-> type]

RemoveListener(ls, k) == SelectSeq(ls, LAMBDA l : l.loop # k)

\* the for loop of startBatch at index idx: the next file is taken and read,
\* or the loop ends (completionCallback, finally: isProcessing = false)
Advance(m, k, idx) ==
    IF idx < Len(files)
    THEN [m EXCEPT !.currentIndex = idx,
                   !.loops[k].i = idx,
                   !.loops[k].file = files[idx + 1],
                   !.loops[k].pc = "read"]
    ELSE [m EXCEPT !.loops[k].i = idx,
                   !.loops[k].pc = "done",
                   !.loops[k].final = m.results,
                   !.isProcessing = FALSE]

\* the per-file try/catch left out: a rejected processFile ends startBatch
SettleSheet_Rethrows(m, k, status, error, body) ==
    IF status = "error"
    THEN [m EXCEPT !.loops[k].pc = "thrown",
                   !.loops[k].final = m.results,
                   !.isProcessing = FALSE,
                   !.delivered = Append(@, BatchTag(k, m.loops[k].i))]
    ELSE LET entry == [file |-> m.loops[k].file.name, status |-> status,
                       error |-> error, body |-> body]
         IN Advance([m EXCEPT !.results = Append(@, entry),
                              !.delivered = Append(@, BatchTag(k, m.loops[k].i))],
                    k, m.loops[k].i + 1)

\* processFile settled for loop k: the entry is pushed, the loop goes on
SettleSheet(m, k, status, error, body) ==
    LET entry == [file |-> m.loops[k].file.name, status |-> status,
                  error |-> error, body |-> body]
        m1 == [m EXCEPT !.results = Append(@, entry),
                        !.delivered = Append(@, BatchTag(k, m.loops[k].i))]
    IN Advance(m1, k, m.loops[k].i + 1)

\* loadMarkerToWorker settled for loop k
SettleMarker(m, k, ok) ==
    IF ok THEN Advance(m, k, 0)
    ELSE [m EXCEPT !.loops[k].pc = "thrown",
                   !.loops[k].final = m.results,
                   !.isProcessing = FALSE]

\* one registered listener sees the message
RunListener(m, l, msg) ==
    IF l \notin Range(m.listeners) THEN m
    ELSE IF l.kind = "omr"
    THEN IF msg.type = "omrComplete" /\ msg.id = l.id
         THEN LET m1 == [m EXCEPT !.listeners = RemoveListener(@, l.loop)]
              IN IF msg.error # ""
                 THEN SettleSheet(m1, l.loop, "error", msg.error, NoBody)
                 ELSE SettleSheet(m1, l.loop, "success", "", msg.body)
         ELSE m
    ELSE IF msg.id = l.id
         THEN LET m1 == [m EXCEPT !.listeners = RemoveListener(@, l.loop)]
              IN IF msg.type = "result" THEN SettleMarker(m1, l.loop, TRUE)
                 ELSE IF msg.type = "error" THEN SettleMarker(m1, l.loop, FALSE)
                 ELSE m1
         ELSE m

RECURSIVE RunListeners(_, _, _, _)
RunListeners(m, ls, i, msg) ==
    IF i > Len(ls) THEN m
    ELSE RunListeners(RunListener(m, ls[i], msg), ls, i + 1, msg)

\* the reply settles the most recent pending request instead of its own
AppHandle_Latest(m, msg) ==
    IF msg.type \in {"result", "error"} /\ msg.id.kind = "num"
       /\ msg.id.n \in DOMAIN pendingRequests
    THEN LET n == CHOOSE j \in DOMAIN pendingRequests :
                    \A i \in DOMAIN pendingRequests : i <= j
         IN [m EXCEPT !.delivered = Append(@, AppTag(n, pendingRequests[n].type))]
    ELSE m

\* OMRApp.handleWorkerMessage: onWorkerResult / onWorkerError
AppHandle(m, msg) ==
    IF msg.type \in {"result", "error"} /\ msg.id.kind = "num"
       /\ msg.id.n \in DOMAIN pendingRequests
    THEN [m EXCEPT !.delivered = Append(@, AppTag(msg.id.n, pendingRequests[msg.id.n].type))]
    ELSE m

AppPendingAfter(msg) ==
    IF msg.type \in {"result", "error"} /\ msg.id.kind = "num"
       /\ msg.id.n \in DOMAIN pendingRequests
    THEN [n \in DOMAIN pendingRequests \ {msg.id.n} |-> pendingRequests[n]]
    ELSE pendingRequests

SetMain(m) ==
    /\ results' = m.results
    /\ loops' = m.loops
    /\ listeners' = m.listeners
    /\ bpIsProcessing' = m.isProcessing
    /\ currentIndex' = m.currentIndex
    /\ delivered' = m.delivered

WorkerVars == <<isOpenCVReady, initState, processingQueue, isProcessing, workerPc,
                currentTemplate, markerImage, matCounter, started, finished>>

\* a message of the worker is dispatched on the main thread: worker.onmessage
\* first, then the registered listeners in registration order
MainOnMessage ==
    /\ outbox # <<>>
    /\ LET msg == Head(outbox)
       IN /\ outbox' = Tail(outbox)
          /\ pendingRequests' = AppPendingAfter(msg)
          /\ SetMain(RunListeners(AppHandle(MainState, msg), listeners, 1, msg))
    /\ UNCHANGED WorkerVars
    /\ UNCHANGED <<inbox, files, template, marker, messageId, now, ticks,
                   submitted, study, picked>>

\* setFiles(files)
SetFiles(n) ==
    /\ files' = SubSeq(SheetsOf(picked.files), 1, n)
    /\ currentIndex' = 0
    /\ results' = <<>>
    /\ UNCHANGED WorkerVars
    /\ UNCHANGED <<inbox, outbox, template, marker, bpIsProcessing, loops,
                   listeners, messageId, pendingRequests, now, ticks,
                   submitted, delivered, study, picked>>

\* setTemplate(file): the parsed JSON document
SetTemplate ==
    /\ template' = picked.template
    /\ UNCHANGED WorkerVars
    /\ UNCHANGED <<inbox, outbox, files, marker, results, bpIsProcessing,
                   currentIndex, loops, listeners, messageId,
                   pendingRequests, now, ticks, submitted, delivered, study, picked>>

\* setMarker(file)
SetMarker(f) ==
    /\ marker' = f
    /\ UNCHANGED WorkerVars
    /\ UNCHANGED <<inbox, outbox, files, template, results, bpIsProcessing,
                   currentIndex, loops, listeners, messageId,
                   pendingRequests, now, ticks, submitted, delivered, study, picked>>

NextLoop == Cardinality({k \in LoopIds : loops[k].pc # "idle"}) + 1

\* startBatch: each of the three guards throws and changes nothing; otherwise the
\* fields are reset and the batch runs up to its first await (the marker load,
\* or the first file)
StartBatch ==
    /\ ~bpIsProcessing
    /\ files # <<>>
    /\ template # NoTemplate
    /\ NextLoop \in LoopIds
    /\ LET k == NextLoop
           m0 == [MainState EXCEPT !.isProcessing = TRUE,
                                   !.currentIndex = 0,
                                   !.results = <<>>,
                                   !.loops[k].submittedFiles = files,
                                   !.loops[k].markerFile = marker]
       IN SetMain(IF marker # NoFile
                  THEN [m0 EXCEPT !.loops[k].pc = "markerRead"]
                  ELSE Advance(m0, k, 0))
    /\ UNCHANGED WorkerVars
    /\ UNCHANGED <<inbox, outbox, files, template, marker, messageId,
                   pendingRequests, now, ticks, submitted, study, picked>>

\* loadMarkerToWorker: the marker image is loaded and posted
LoopMarkerSend(k) ==
    /\ loops[k].pc = "markerRead"
    /\ LET id == [kind |-> "str", n |-> DateNow]
       IN /\ inbox' = Append(inbox, ToWorker("load_marker", id, NoSheet,
                                             NoTemplate, loops[k].markerFile))
          /\ listeners' = Append(listeners,
                                 [loop |-> k, kind |-> "marker", id |-> id])
          /\ loops' = [loops EXCEPT ![k].pc = "marker", ![k].msgId = id]
    /\ UNCHANGED WorkerVars
    /\ UNCHANGED <<outbox, files, template, marker, results, bpIsProcessing,
                   currentIndex, messageId, pendingRequests, now,
                   ticks, submitted, delivered, study, picked>>

\* processFile / processWithWorker: the image is loaded, posted with the
\* current template, and the 30 s timer is set
LoopSend(k) ==
    /\ loops[k].pc = "read"
    /\ LET id == [kind |-> "num", n |-> DateNow]
       IN /\ inbox' = Append(inbox, ToWorker("processOMR", id, loops[k].file,
                                             template, NoFile))
          /\ listeners' = Append(listeners,
                                 [loop |-> k, kind |-> "omr", id |-> id])
          /\ loops' = [loops EXCEPT ![k].pc = "wait", ![k].msgId = id,
                                    ![k].deadline = now + TIMEOUT_MS,
                                    ![k].seq = Len(submitted) + 1]
          /\ submitted' = Append(submitted, BatchTag(k, loops[k].i))
    /\ UNCHANGED WorkerVars
    /\ UNCHANGED <<outbox, files, template, marker, results, bpIsProcessing,
                   currentIndex, messageId, pendingRequests, now,
                   ticks, delivered, study, picked>>

\* the timers whose firing still has an effect, by the order they were set in:
\* all have the same delay, so they fire in that order
LiveTimers ==
    {loops[k].seq : k \in {j \in LoopIds : loops[j].pc = "wait"}}
    \cup {pendingRequests[n].seq : n \in DOMAIN pendingRequests}

\* the 30 s timer of processWithWorker fires before the reply
BatchTimeout(k) ==
    /\ loops[k].pc = "wait"
    /\ \A q \in LiveTimers : loops[k].seq <= q
    /\ now' = Max2(now, loops[k].deadline)
    /\ SetMain(SettleSheet([MainState EXCEPT !.listeners = RemoveListener(@, k)],
                           k, "error", "timeout", NoBody))
    /\ UNCHANGED WorkerVars
    /\ UNCHANGED <<inbox, outbox, files, template, marker, messageId,
                   pendingRequests, ticks, submitted, study, picked>>

\* stop()
Stop ==
    /\ bpIsProcessing' = FALSE
    /\ loops' = [k \in LoopIds |->
                   IF loops[k].pc \in {"markerRead", "marker", "read", "wait"}
                      /\ loops[k].stopAt < 0
                   THEN [loops[k] EXCEPT !.stopAt = loops[k].i]
                   ELSE loops[k]]
    /\ UNCHANGED WorkerVars
    /\ UNCHANGED <<inbox, outbox, files, template, marker, results, currentIndex,
                   listeners, messageId, pendingRequests, now, ticks,
                   submitted, delivered, study, picked>>

(***************************************************************************)
(* OMRApp (main thread)                                                    *)
(***************************************************************************)
AppSheets == Range(SheetsOf(picked.files))

\* sendWorkerMessage(type, payload)
sendWorkerMessage(type, sheet, t) ==
    LET id == messageId + 1
    IN /\ messageId' = id
       /\ pendingRequests' =
            [n \in DOMAIN pendingRequests \cup {id} |->
               IF n = id THEN [type |-> type, deadline |-> now + TIMEOUT_MS,
                               seq |-> Len(submitted) + 1]
               ELSE pendingRequests[n]]
       /\ inbox' = Append(inbox, ToWorker(type, AppId(id), sheet, t, NoFile))
       /\ submitted' = Append(submitted, AppTag(id, type))

\* loadTemplate() and processFileWithWorker(): requests of the application
AppSend ==
    /\ messageId < 1 + MaxAppRequests
    /\ \/ sendWorkerMessage("load_template", NoSheet, picked.template)
       \/ \E sh \in AppSheets :
             sendWorkerMessage("process_image", sh, NoTemplate)
    /\ UNCHANGED WorkerVars
    /\ UNCHANGED <<outbox, files, template, marker, results, bpIsProcessing,
                   currentIndex, loops, listeners, now, ticks,
                   delivered, study, picked>>

\* the 30 s timer of sendWorkerMessage finds the request still pending
AppTimeout(n) ==
    /\ n \in DOMAIN pendingRequests
    /\ \A q \in LiveTimers : pendingRequests[n].seq <= q
    /\ now' = Max2(now, pendingRequests[n].deadline)
    /\ pendingRequests' = [j \in DOMAIN pendingRequests \ {n} |-> pendingRequests[j]]
    /\ delivered' = Append(delivered, AppTag(n, pendingRequests[n].type))
    /\ UNCHANGED WorkerVars
    /\ UNCHANGED <<inbox, outbox, files, template, marker, results,
                   bpIsProcessing, currentIndex, loops, listeners,
                   messageId, ticks, submitted, study, picked>>

\* a millisecond passes
Tick ==
    /\ ticks < MaxTicks
    /\ ticks' = ticks + 1
    /\ now' = now + 1
    /\ UNCHANGED WorkerVars
    /\ UNCHANGED <<inbox, outbox, files, template, marker, results,
                   bpIsProcessing, currentIndex, loops, listeners,
                   messageId, pendingRequests, submitted, delivered, study, picked>>

(***************************************************************************)
(* Initial state: the worker script is loaded, OMRApp.initWorker has       *)
(* posted its init request (id 1), a BatchProcessor has been constructed.  *)
(***************************************************************************)
NoStudy == [phase |-> "off"]

Constructed ==
    /\ isOpenCVReady = FALSE
    /\ initState = [phase |-> "none", id |-> NoId]
    /\ processingQueue = <<>>
    /\ isProcessing = FALSE
    /\ workerPc = "idle"
    /\ currentTemplate = NoTemplate
    /\ markerImage = NoMat
    /\ matCounter = 0
    /\ inbox = << ToWorker("init", AppId(1), NoSheet, NoTemplate, NoFile) >>
    /\ outbox = <<>>
    /\ files = <<>>
    /\ template = NoTemplate
    /\ marker = NoFile
    /\ results = <<>>
    /\ bpIsProcessing = FALSE
    /\ currentIndex = 0
    /\ loops = [k \in LoopIds |-> IdleLoop]
    /\ listeners = <<>>
    /\ messageId = 1
    /\ pendingRequests = [n \in {1} |-> [type |-> "init", deadline |-> TIMEOUT_MS,
                                         seq |-> 1]]
    /\ now = 0
    /\ ticks = 0
    /\ started = <<>>
    /\ finished = <<>>
    /\ submitted = << AppTag(1, "init") >>
    /\ delivered = <<>>

Init ==
    /\ Constructed
    /\ study = NoStudy
    /\ picked \in Selections

(***************************************************************************)
(* The buffers of one processing step.  The step is a function of the      *)
(* entry point (process_image or processOMR), the current template, the    *)
(* presence of a marker and the sheet; the sheet's fault ranges over every *)
(* native call and check of the pipeline, so every exit path is taken.     *)
(***************************************************************************)
\* steps of the operation lists that are plain JavaScript and cannot throw
Bookkeeping ==
    {"pre.return", "persp.return", "det.return", "cp.contours.delete",
     "postResult", "ready", "cp.sortCorners", "mk.orderPoints"}

ThrowingCalls(ops) ==
    {ops[i].name : i \in {j \in 1..Len(ops) : ops[j].kind = "call"}} \ Bookkeeping

\* the checks of the pipeline throw on what the sheet or the template is
Checks == {"cp.checkBoundary", "mk.validateMatch", "det.parseTemplate"}

StudyFaults ==
    {"none", "no_boundary", "no_marker"}
    \cup ((ThrowingCalls(processImage("valid_qr", TRUE, TRUE))
           \cup ThrowingCalls(processImage("valid_qr", FALSE, TRUE))) \ Checks)

StudyInputs ==
    [phase : {"input"}, path : {"queue", "batch"},
     template : Templates \cup {NoTemplate}, hasMarker : BOOLEAN,
     fault : StudyFaults]

StudySheet(in) == [name |-> 1, fault |-> in.fault]

\* processImage / processOMRBatch applied to the input
ProcessStep ==
    /\ study.phase = "input"
    /\ LET sheet == StudySheet(study)
           ops == IF study.path = "queue"
                  THEN processImage(study.template, study.hasMarker,
                                    HasBoundary(sheet))
                  ELSE processOMRBatch(study.template, study.hasMarker,
                                       HasBoundary(sheet))
           st == RunOps(ops, FailSet(sheet, study.template, TRUE))
       IN study' = [phase |-> "done", path |-> study.path,
                    template |-> study.template, hasMarker |-> study.hasMarker,
                    fault |-> study.fault, error |-> st.thrown,
                    leaked |-> st.live, swallowed |-> st.swallowed,
                    reached |-> study.fault \in OpNames(ops)]
    /\ UNCHANGED WorkerVars
    /\ UNCHANGED <<inbox, outbox, files, template, marker, results,
                   bpIsProcessing, currentIndex, loops, listeners, messageId,
                   pendingRequests, now, ticks, submitted, delivered, picked>>

InitMats ==
    /\ Constructed
    /\ study \in StudyInputs
    /\ picked = [files |-> [i \in 1..MaxFiles |-> "none"], template |-> "valid",
                 marker |-> "ok"]

SpecMats == InitMats /\ [][ProcessStep]_vars

WorkerNext ==
    \/ WorkerOnMessage
    \/ WorkerResume
    \/ OpenCVChecker
    \/ OpenCVTimeout

\* no startBatch call has been accepted yet
NeverStarted == \A k \in LoopIds : loops[k].pc = "idle"

\* the caller fills in the processor before its first batch
Configure ==
    /\ NeverStarted
    /\ \/ \E n \in 1..MaxFiles : SetFiles(n)
       \/ SetTemplate
       \/ \E f \in {picked.marker, NoFile} : SetMarker(f)

\* the first accepted startBatch call
StartFirstBatch == NeverStarted /\ StartBatch

\* one batch on a worker that is loading: the caller may call any setter and
\* stop() at any time, the 30 s timers may fire
NextBatch ==
    \/ WorkerOnMessage
    \/ OpenCVChecker
    \/ \E n \in 1..MaxFiles : SetFiles(n)
    \/ SetTemplate
    \/ SetMarker(picked.marker)
    \/ SetMarker(NoFile)
    \/ StartFirstBatch
    \/ \E k \in LoopIds : LoopMarkerSend(k)
    \/ \E k \in LoopIds : LoopSend(k)
    \/ \E k \in LoopIds : BatchTimeout(k)
    \/ Stop
    \/ MainOnMessage

SpecBatch == Init /\ [][NextBatch]_vars

\* a processor that is configured once and then started and stopped, up to
\* MaxStarts accepted starts, while time passes
NextRestart ==
    \/ WorkerOnMessage
    \/ OpenCVChecker
    \/ Configure
    \/ StartBatch
    \/ \E k \in LoopIds : LoopMarkerSend(k)
    \/ \E k \in LoopIds : LoopSend(k)
    \/ Stop
    \/ MainOnMessage
    \/ Tick

\* the user has selected sheets that can be read, a template that parses and a
\* marker image that loads
InitRestart ==
    /\ Init
    /\ picked.marker = "ok"
    /\ picked.template = "valid"
    /\ \A i \in 1..MaxFiles : picked.files[i] = "none"

SpecRestart == InitRestart /\ [][NextRestart]_vars

\* the application sending single requests to the worker
NextQueue ==
    \/ WorkerNext
    \/ AppSend
    \/ \E n \in 1..(1 + MaxAppRequests) : AppTimeout(n)
    \/ MainOnMessage
    \/ Tick

SpecQueue == Init /\ [][NextQueue]_vars


(***************************************************************************)
(* Template parsing utilities.  A JavaScript string is modelled as the     *)
(* sequence of its characters; a function that may throw returns a record  *)
(* saying whether it returned, with its value or the message of the Error. *)
(***************************************************************************)
Return(v) == [ok |-> TRUE, value |-> v, error |-> ""]

Throw(message) == [ok |-> FALSE, value |-> <<>>, error |-> message]

\* the steps of the study of a pure function leave the program alone
ProgramUnchanged ==
    /\ UNCHANGED WorkerVars
    /\ UNCHANGED <<inbox, outbox, files, template, marker, results,
                   bpIsProcessing, currentIndex, loops, listeners, messageId,
                   pendingRequests, now, ticks, submitted, delivered, picked>>

DigitChars == <<"0", "1", "2", "3", "4", "5", "6", "7", "8", "9">>

\* the regular expression class \d
IsDigit(c) == \E d \in 1..Len(DigitChars) : DigitChars[d] = c

DigitValue(c) == (CHOOSE d \in 1..Len(DigitChars) : DigitChars[d] = c) - 1

\* String.prototype.includes
includes(str, sub) ==
    \E i \in 1..(Len(str) - Len(sub) + 1) : SubSeq(str, i, i + Len(sub) - 1) = sub

\* parseInt of a string of decimal digits
RECURSIVE parseInt(_)
parseInt(str) ==
    IF str = <<>> THEN 0
    ELSE parseInt(SubSeq(str, 1, Len(str) - 1)) * Len(DigitChars)
         + DigitValue(str[Len(str)])

\* `${i}` of a non-negative integer
RECURSIVE NumberToString(_)
NumberToString(n) ==
    IF n < Len(DigitChars) THEN << DigitChars[n + 1] >>
    ELSE Append(NumberToString(n \div Len(DigitChars)),
                DigitChars[(n % Len(DigitChars)) + 1])

\* the length of the longest run of digits (or of non-digits) str starts with
RECURSIVE LeadingRun(_, _)
LeadingRun(str, digits) ==
    IF str = <<>> \/ IsDigit(str[1]) # digits THEN 0
    ELSE 1 + LeadingRun(Tail(str), digits)

DotDot == << ".", "." >>

\* fieldString.match(/^([^\d]+)(\d+)\.\.(\d+)$/): the classes [^\d] and \d
\* are disjoint, so the groups are the leading runs
FieldStringMatch(str) ==
    LET p == LeadingRun(str, FALSE)
        afterPrefix == SubSeq(str, p + 1, Len(str))
        s == LeadingRun(afterPrefix, TRUE)
        afterStart == SubSeq(afterPrefix, s + 1, Len(afterPrefix))
        endStr == SubSeq(afterStart, Len(DotDot) + 1, Len(afterStart))
    IN IF /\ p >= 1
          /\ s >= 1
          /\ Len(afterStart) > Len(DotDot)
          /\ SubSeq(afterStart, 1, Len(DotDot)) = DotDot
          /\ \A i \in 1..Len(endStr) : IsDigit(endStr[i])
       THEN [matched |-> TRUE, prefix |-> SubSeq(str, 1, p),
             startStr |-> SubSeq(afterPrefix, 1, s), endStr |-> endStr]
       ELSE [matched |-> FALSE, prefix |-> <<>>, startStr |-> <<>>,
             endStr |-> <<>>]

\* the loop of parseFieldString with the end of the range left out
parseFieldString_Exclusive(fieldString) ==
    IF includes(fieldString, DotDot)
    THEN LET match == FieldStringMatch(fieldString)
             start == parseInt(match.startStr)
             end == parseInt(match.endStr)
         IN IF ~match.matched THEN Throw("Invalid field string format")
            ELSE IF start >= end THEN Throw("Invalid range in field string")
            ELSE Return([k \in 1..(end - start) |->
                            match.prefix \o NumberToString(start + k - 1)])
    ELSE Return(<< fieldString >>)

parseFieldString(fieldString) ==
    IF includes(fieldString, DotDot)
    THEN LET match == FieldStringMatch(fieldString)
             start == parseInt(match.startStr)
             end == parseInt(match.endStr)
         IN IF ~match.matched THEN Throw("Invalid field string format")
            ELSE IF start >= end THEN Throw("Invalid range in field string")
            ELSE Return([k \in 1..(end - start + 1) |->
                            match.prefix \o NumberToString(start + k - 1)])
    ELSE Return(<< fieldString >>)

\* parseFields: the expansions of the tokens one after the other; the first
\* token that throws ends it
\* the elements of one step of a loop pushed before those of the later steps;
\* the first step that throws ends the loop
Spread(first, rest) ==
    IF ~first.ok THEN first
    ELSE IF ~rest.ok THEN rest
    ELSE Return(first.value \o rest.value)

RECURSIVE parseFields(_)
parseFields(fieldLabels) ==
    IF fieldLabels = <<>> THEN Return(<<>>)
    ELSE Spread(parseFieldString(Head(fieldLabels)),
                parseFields(Tail(fieldLabels)))

(***************************************************************************)
(* parseFieldString on every short string of the characters of a range     *)
(* token.                                                                  *)
(***************************************************************************)
TokenChars == {"q", "0", "1", "2", "."}

FieldStrings == UNION {[1..n -> TokenChars] : n \in 1..MaxTokenLen}

ParseFieldStringStep ==
    /\ study.phase = "token"
    /\ study' = [phase |-> "expanded", token |-> study.token,
                 result |-> parseFieldString(study.token)]
    /\ ProgramUnchanged

InitFields ==
    /\ Constructed
    /\ study \in [phase : {"token"}, token : FieldStrings]
    /\ picked = [files |-> [i \in 1..MaxFiles |-> "none"], template |-> "valid",
                 marker |-> "ok"]

SpecFields == InitFields /\ [][ParseFieldStringStep]_vars


(***************************************************************************)
(* Thresholds.  Mean intensities are integers here; a threshold is the     *)
(* midpoint of two of them, so thresholds are kept doubled (in half        *)
(* intensity units): a bubble of mean m is under threshold t iff t > 2m.   *)
(***************************************************************************)
MIN_JUMP == 25

CONFIDENT_SURPLUS == 5

\* the initial threshold of both searches
WHITE == 255

Doubled(v) == 2 * v

\* [...values].sort((a, b) => a - b)
RECURSIVE Insert(_, _)
Insert(v, sorted) ==
    IF sorted = <<>> THEN << v >>
    ELSE IF v <= Head(sorted) THEN << v >> \o sorted
    ELSE << Head(sorted) >> \o Insert(v, Tail(sorted))

RECURSIVE Sort(_)
Sort(values) ==
    IF values = <<>> THEN <<>>
    ELSE Insert(values[Len(values)], Sort(SubSeq(values, 1, Len(values) - 1)))

\* Math.max(...values), Math.min(...values)
MathMax(values) == CHOOSE v \in Range(values) : \A w \in Range(values) : w <= v

MathMin(values) == CHOOSE v \in Range(values) : \A w \in Range(values) : v <= w

\* the for loop of both searches: i runs over the zero-based indices from i
\* to last, the jump at i is sorted[i + ahead] - sorted[i - back], and a jump
\* strictly greater than the greatest so far moves the threshold to its
\* midpoint
RECURSIVE JumpScan(_, _, _, _, _, _, _)
JumpScan(sorted, back, ahead, i, last, maxJump, threshold) ==
    IF i > last THEN [maxJump |-> maxJump, threshold |-> threshold]
    ELSE LET jump == sorted[i + ahead + 1] - sorted[i - back + 1]
         IN IF jump > maxJump
            THEN JumpScan(sorted, back, ahead, i + 1, last, jump,
                          Doubled(sorted[i - back + 1]) + jump)
            ELSE JumpScan(sorted, back, ahead, i + 1, last, maxJump, threshold)

\* the half-window rounded up instead of down
HalfWindow_Ceil(looseness) == (looseness + 2) \div 2

\* Math.floor((looseness + 1) / 2)
HalfWindow(looseness) == (looseness + 1) \div 2

\* the search run over the means as they come, the sort left out
calculateGlobalThreshold_Unsorted(values, looseness) ==
    IF Len(values) = 0 THEN Doubled(WHITE)
    ELSE IF Len(values) < 3 THEN Doubled(MathMax(values))
    ELSE LET ls == HalfWindow(looseness)
             l == Len(values) - ls
         IN JumpScan(values, ls, ls, ls, l - 1, MIN_JUMP,
                     Doubled(WHITE)).threshold

calculateGlobalThreshold(values, looseness) ==
    IF Len(values) = 0 THEN Doubled(WHITE)
    ELSE IF Len(values) < 3 THEN Doubled(MathMax(values))
    ELSE LET sorted == Sort(values)
             ls == HalfWindow(looseness)
             l == Len(sorted) - ls
         IN JumpScan(sorted, ls, ls, ls, l - 1, MIN_JUMP,
                     Doubled(WHITE)).threshold

calculateLocalThreshold(stripValues, globalThreshold, noOutliers) ==
    IF Len(stripValues) = 0 THEN globalThreshold
    ELSE IF Len(stripValues) < 3
    THEN IF MathMax(stripValues) - MathMin(stripValues) < MIN_JUMP
         THEN globalThreshold
         ELSE MathMax(stripValues) + MathMin(stripValues)
    ELSE LET sorted == Sort(stripValues)
             found == JumpScan(sorted, 1, 1, 1, Len(sorted) - 2,
                               MIN_JUMP, Doubled(WHITE))
         IN IF found.maxJump < MIN_JUMP + CONFIDENT_SURPLUS /\ noOutliers
            THEN globalThreshold
            ELSE found.threshold

\* a bubble whose mean equals the threshold taken as filled
isFilled_OrEqual(localThreshold, meanValue) == localThreshold >= Doubled(meanValue)

\* const isFilled = localThreshold > bubble.meanValue
isFilled(localThreshold, meanValue) == localThreshold > Doubled(meanValue)

(***************************************************************************)
(* The thresholds of a sheet whose bubbles form one strip: the global      *)
(* threshold of the means, the local threshold of the strip under either   *)
(* classification of the strip, and the bubbles found filled.              *)
(***************************************************************************)
MeanValues == {10, 31, 100, 200}

\* the means of the examples of the specification
ExampleMeans == << 10, 10, 11, 9, 200, 201, 199, 200 >>

ExampleStrip == << 20, 22, 210, 215 >>

MeanLists ==
    UNION {[1..n -> MeanValues] : n \in 0..MaxMeans}
    \cup {ExampleMeans, ExampleStrip}

Loosenesses == {1, 4}

ThresholdInputs ==
    [phase : {"means"}, values : MeanLists, looseness : Loosenesses,
     noOutliers : BOOLEAN]

ThresholdStep ==
    /\ study.phase = "means"
    /\ LET globalThreshold ==
               calculateGlobalThreshold(study.values, study.looseness)
           localThreshold ==
               calculateLocalThreshold(study.values, globalThreshold,
                                       study.noOutliers)
       IN study' = [phase |-> "thresholds", values |-> study.values,
                    looseness |-> study.looseness,
                    noOutliers |-> study.noOutliers,
                    globalThreshold |-> globalThreshold,
                    localThreshold |-> localThreshold,
                    filled |-> {i \in 1..Len(study.values) :
                                  isFilled(localThreshold, study.values[i])}]
    /\ ProgramUnchanged

InitThreshold ==
    /\ Constructed
    /\ study \in ThresholdInputs
    /\ picked = [files |-> [i \in 1..MaxFiles |-> "none"], template |-> "valid",
                 marker |-> "ok"]

SpecThreshold == InitThreshold /\ [][ThresholdStep]_vars


(***************************************************************************)
(* Template documents.  A key of a JavaScript object that may be missing   *)
(* is a sequence of at most one element: Absent when the key is undefined, *)
(* Some(v) when it holds v.                                                *)
(***************************************************************************)
Absent == <<>>

Some(v) == << v >>

\* a destructuring default: the default replaces an undefined value only
Default(option, default) == IF option = Absent THEN default ELSE option[1]

\* number || default: zero is replaced as well
OrDefault(option, default) ==
    IF option = Absent THEN default
    ELSE IF option[1] = 0 THEN default ELSE option[1]

FIELD_TYPES ==
    [QTYPE_INT |-> [bubbleValues |-> DigitChars, direction |-> "vertical"],
     QTYPE_INT_FROM_1 |-> [bubbleValues |-> Tail(DigitChars) \o << "0" >>,
                           direction |-> "vertical"],
     QTYPE_MCQ4 |-> [bubbleValues |-> << "A", "B", "C", "D" >>,
                     direction |-> "horizontal"],
     QTYPE_MCQ5 |-> [bubbleValues |-> << "A", "B", "C", "D", "E" >>,
                     direction |-> "horizontal"]]

QR == << "Q", "R" >>

QR_Code == << "Q", "R", "_", "C", "o", "d", "e" >>

qr_id == << "q", "r", "_", "i", "d" >>

\* template.pageDimensions || [850, 1202]
DefaultPageDimensions == << 850, 1202 >>

\* template.bubbleDimensions || [32, 32]
DefaultBubbleDimensions == << 32, 32 >>

\* the test of parseFieldBlocks for a block that is left to the QR decoder
isQRBlock(blockName, fieldBlock) ==
    \/ fieldBlock.fieldType = Some("QTYPE_CUSTOM")
    \/ blockName = QR_Code
    \/ includes(blockName, QR)

\* the test of detectAndParseAnswers for a block that is given to the QR
\* decoder
isQRBlockInDetection(blockName, fieldBlock) ==
    \/ fieldBlock.fieldType = Some("QTYPE_CUSTOM")
    \/ blockName = QR_Code
    \/ (/\ fieldBlock.bubbleValues # Absent
        /\ Len(fieldBlock.bubbleValues[1]) = 1
        /\ includes(blockName, QR))

\* the preset filling in only what the block does not say itself
blockConfig_OwnFirst(fieldBlock) ==
    IF fieldBlock.fieldType # Absent
       /\ fieldBlock.fieldType[1] \in DOMAIN FIELD_TYPES
    THEN LET preset == FIELD_TYPES[fieldBlock.fieldType[1]]
         IN [fieldBlock EXCEPT
               !.bubbleValues = IF @ = Absent THEN Some(preset.bubbleValues) ELSE @,
               !.direction = IF @ = Absent THEN Some(preset.direction) ELSE @]
    ELSE fieldBlock

\* { ...fieldBlock, ...FIELD_TYPES[fieldBlock.fieldType] }
blockConfig(fieldBlock) ==
    IF fieldBlock.fieldType # Absent
       /\ fieldBlock.fieldType[1] \in DOMAIN FIELD_TYPES
    THEN LET preset == FIELD_TYPES[fieldBlock.fieldType[1]]
         IN [fieldBlock EXCEPT !.bubbleValues = Some(preset.bubbleValues),
                               !.direction = Some(preset.direction)]
    ELSE fieldBlock

\* the bubble grid of one block: label by label, value by value
BubbleGrid(config, globalBubbleDimensions, parsedLabels) ==
    LET origin == Default(config.origin, << 0, 0 >>)
        bubbleDimensions == Default(config.bubbleDimensions, globalBubbleDimensions)
        bubbleValues == Default(config.bubbleValues, <<>>)
        bubblesGap == Default(config.bubblesGap, 40)
        direction == Default(config.direction, "vertical")
        labelsGap == Default(config.labelsGap, 60)
        nv == Len(bubbleValues)
    IN IF ~parsedLabels.ok THEN parsedLabels
       ELSE Return(
         [k \in 1..(Len(parsedLabels.value) * nv) |->
            LET li == (k - 1) \div nv
                vi == (k - 1) % nv
            IN [x |-> IF direction = "vertical"
                      THEN origin[1] + li * labelsGap
                      ELSE origin[1] + vi * bubblesGap,
                y |-> IF direction = "vertical"
                      THEN origin[2] + vi * bubblesGap
                      ELSE origin[2] + li * labelsGap,
                fieldLabel |-> parsedLabels.value[li + 1],
                fieldValue |-> bubbleValues[vi + 1],
                width |-> bubbleDimensions[1],
                height |-> bubbleDimensions[2]]])

\* the body of the loop of parseFieldBlocks for one block
BlockBubbles(config, globalBubbleDimensions) ==
    BubbleGrid(config, globalBubbleDimensions,
               parseFields(Default(config.fieldLabels, <<>>)))

\* the loop of parseFieldBlocks over Object.entries(template.fieldBlocks)
RECURSIVE FieldBlockBubbles(_, _)
FieldBlockBubbles(entries, globalBubbleDimensions) ==
    IF entries = <<>> THEN Return(<<>>)
    ELSE Spread(IF isQRBlock(Head(entries).name, Head(entries).block)
                THEN Return(<<>>)
                ELSE BlockBubbles(blockConfig(Head(entries).block),
                                  globalBubbleDimensions),
                FieldBlockBubbles(Tail(entries), globalBubbleDimensions))

\* what a parser returns without throwing: null, or the bubbles and the page
NullResult == [isNull |-> TRUE, bubbles |-> <<>>, pageDimensions |-> <<>>]

Parsed(bubbles, pageDimensions) ==
    [isNull |-> FALSE, bubbles |-> bubbles, pageDimensions |-> pageDimensions]

\* return { bubbles, pageDimensions }, reached when the loop did not throw
WithPage(bubbles, pageDimensions) ==
    IF ~bubbles.ok THEN bubbles
    ELSE Return(Parsed(bubbles.value, pageDimensions))

parseFieldBlocks(templateJson) ==
    IF templateJson.fieldBlocks = Absent THEN Return(NullResult)
    ELSE WithPage(FieldBlockBubbles(templateJson.fieldBlocks[1],
                                    Default(templateJson.bubbleDimensions,
                                            DefaultBubbleDimensions)),
                  Default(templateJson.pageDimensions, DefaultPageDimensions))

\* the bubbles of one region: question by question, option by option
RegionBubbles(region, diameter) ==
    LET startQ == region.questions.start
        endQ == region.questions.end
        questionGap == OrDefault(region.questions.gap, 65)
        optionGap == OrDefault(region.options.gap, 80)
        optionValues == Default(region.options.values, << "A", "B", "C", "D" >>)
        nv == Len(optionValues)
        nq == IF endQ >= startQ THEN endQ - startQ + 1 ELSE 0
    IN [k \in 1..(nq * nv) |->
          LET qi == (k - 1) \div nv
              oi == (k - 1) % nv
          IN [x |-> region.origin.x + oi * optionGap,
              y |-> region.origin.y + qi * questionGap,
              fieldLabel |-> NumberToString(startQ + qi),
              fieldValue |-> optionValues[oi + 1],
              width |-> diameter,
              height |-> diameter]]

RECURSIVE RegionsBubbles(_, _)
RegionsBubbles(regions, diameter) ==
    IF regions = <<>> THEN <<>>
    ELSE RegionBubbles(Head(regions), diameter)
         \o RegionsBubbles(Tail(regions), diameter)

parseRegionsFormat(templateJson) ==
    IF templateJson.layout = Absent THEN Return(NullResult)
    ELSE IF templateJson.layout[1].regions = Absent THEN Return(NullResult)
    ELSE Return(Parsed(RegionsBubbles(templateJson.layout[1].regions[1],
                                      DefaultBubbleDimensions[1]),
                       DefaultPageDimensions))

UnknownTemplateFormat ==
    "Unknown template format - must have either fieldBlocks or layout.regions"

\* the first of the two formats that gives a result, or else what is left
FirstFormat(fieldBlocksResult, regionsResult, neither) ==
    IF ~fieldBlocksResult.ok THEN fieldBlocksResult
    ELSE IF ~fieldBlocksResult.value.isNull THEN fieldBlocksResult
    ELSE IF ~regionsResult.value.isNull THEN regionsResult
    ELSE neither

\* a document of neither format taken as a template without bubbles
parseTemplate_Lenient(templateJson) ==
    FirstFormat(parseFieldBlocks(templateJson), parseRegionsFormat(templateJson),
                Return(Parsed(<<>>, DefaultPageDimensions)))

parseTemplate(templateJson) ==
    FirstFormat(parseFieldBlocks(templateJson), parseRegionsFormat(templateJson),
                Throw(UnknownTemplateFormat))

(***************************************************************************)
(* Detection on a rectified image.  The image is as large as the default   *)
(* page; a bubble whose value is inked on the sheet has the mean DarkMean, *)
(* any other bubble LightMean; the QR decoder reads a text or nothing.     *)
(***************************************************************************)
DarkMean == 20

LightMean == 240

DecodedText == << "I", "D", "7" >>

\* the values an answer takes: a list of selected values, or the string of a
\* QR field
List(items) == [kind |-> "list", items |-> items]

String(chars) == [kind |-> "string", items |-> chars]

\* answers[key] = value
Put(answers, key, value) ==
    [k \in DOMAIN answers \cup {key} |-> IF k = key THEN value ELSE answers[k]]

\* !answers[label]: the key is missing or holds the empty string
Falsy(answers, label) ==
    \/ label \notin DOMAIN answers
    \/ answers[label] = String(<<>>)

\* step 1 of detectAndParseAnswers: the QR fields, block after block
RECURSIVE QRAnswers(_, _, _)
QRAnswers(entries, answers, decoded) ==
    IF entries = <<>> THEN answers
    ELSE LET entry == Head(entries)
             fieldLabel == IF entry.block.fieldLabels # Absent
                           THEN entry.block.fieldLabels[1][1]
                           ELSE qr_id
             text == IF decoded THEN DecodedText
                     ELSE Default(entry.block.emptyVal, <<>>)
         IN IF isQRBlockInDetection(entry.name, entry.block)
            THEN QRAnswers(Tail(entries),
                           Put(answers, fieldLabel, String(text)), decoded)
            ELSE QRAnswers(Tail(entries), answers, decoded)

\* step 3: every label of the expected bubbles starts with an empty list
RECURSIVE InitLabels(_, _)
InitLabels(expectedBubbles, answers) ==
    IF expectedBubbles = <<>> THEN answers
    ELSE LET label == Head(expectedBubbles).fieldLabel
         IN InitLabels(Tail(expectedBubbles),
                       IF Falsy(answers, label)
                       THEN Put(answers, label, List(<<>>))
                       ELSE answers)

\* the footprint of a bubble clipped to the image is not empty
ValidRoi(image, bubble) ==
    LET x == Max2(0, bubble.x)
        y == Max2(0, bubble.y)
        width == IF x + bubble.width > image.cols
                 THEN image.cols - x ELSE bubble.width
        height == IF y + bubble.height > image.rows
                  THEN image.rows - y ELSE bubble.height
    IN width > 0 /\ height > 0

\* cv.mean(grayRoi)[0]
MeanValue(image, bubble) ==
    IF bubble.fieldValue \in image.dark THEN DarkMean ELSE LightMean

\* step 4: the bubbles that are sampled, each with its mean
RECURSIVE BubbleData(_, _)
BubbleData(image, expectedBubbles) ==
    IF expectedBubbles = <<>> THEN <<>>
    ELSE LET bubble == Head(expectedBubbles)
             rest == BubbleData(image, Tail(expectedBubbles))
         IN IF ValidRoi(image, bubble)
            THEN << [x |-> bubble.x, y |-> bubble.y,
                     width |-> bubble.width, height |-> bubble.height,
                     fieldLabel |-> bubble.fieldLabel,
                     fieldValue |-> bubble.fieldValue,
                     meanValue |-> MeanValue(image, bubble)] >> \o rest
            ELSE rest

\* the keys of stripData in the order they were added
RECURSIVE StripLabels(_, _)
StripLabels(bubbleData, seen) ==
    IF bubbleData = <<>> THEN <<>>
    ELSE LET label == Head(bubbleData).fieldLabel
         IN IF label \in seen THEN StripLabels(Tail(bubbleData), seen)
            ELSE << label >> \o StripLabels(Tail(bubbleData), seen \cup {label})

\* stripData[fieldLabel]
Strip(bubbleData, label) ==
    LET OfLabel(bubble) == bubble.fieldLabel = label
    IN SelectSeq(bubbleData, OfLabel)

MeanValues_Of(bubbles) == [i \in 1..Len(bubbles) |-> bubbles[i].meanValue]

RECURSIVE Sum(_)
Sum(values) == IF values = <<>> THEN 0 ELSE Head(values) + Sum(Tail(values))

\* the greatest r of lo..hi with r * r <= x
RECURSIVE SqrtBetween(_, _, _)
SqrtBetween(x, lo, hi) ==
    IF lo >= hi THEN lo
    ELSE LET mid == (lo + hi + 1) \div 2
         IN IF mid * mid <= x THEN SqrtBetween(x, mid, hi)
            ELSE SqrtBetween(x, lo, mid - 1)

\* m * m * variance of m values: m * (sum of squares) - (square of the sum)
ScaledVariance(values) ==
    Len(values) * Sum([i \in 1..Len(values) |-> values[i] * values[i]])
    - Sum(values) * Sum(values)

\* the root of m * m * variance; the deviation of m values of 0..WHITE is at
\* most WHITE
ScaledDeviation(values) ==
    SqrtBetween(ScaledVariance(values), 0, Len(values) * WHITE)

\* Math.sqrt(variance), for strips whose deviation is a whole number
Std(values) == ScaledDeviation(values) \div Len(values)

WholeStd(values) ==
    /\ ScaledDeviation(values) * ScaledDeviation(values) = ScaledVariance(values)
    /\ ScaledDeviation(values) % Len(values) = 0

\* step 6 for the strips from the n-th on: the values of the filled bubbles
\* are pushed onto answers[fieldLabel]; a string has no push
RECURSIVE MarkStrips(_, _, _, _, _)
MarkStrips(labels, bubbleData, answers, globalThreshold, globalStdThreshold) ==
    IF labels = <<>> THEN Return(answers)
    ELSE LET fieldLabel == Head(labels)
             stripBubbles == Strip(bubbleData, fieldLabel)
             stripMeanValues == MeanValues_Of(stripBubbles)
             noOutliers == Doubled(Std(stripMeanValues)) < globalStdThreshold
             localThreshold ==
                 calculateLocalThreshold(stripMeanValues, globalThreshold,
                                         noOutliers)
             IsMarked(bubble) == isFilled(localThreshold, bubble.meanValue)
             marked == SelectSeq(stripBubbles, IsMarked)
             values == [i \in 1..Len(marked) |-> marked[i].fieldValue]
         IN IF marked # <<>> /\ answers[fieldLabel].kind = "string"
            THEN Throw("answers[bubble.fieldLabel].push is not a function")
            ELSE MarkStrips(Tail(labels), bubbleData,
                            IF marked = <<>> THEN answers
                            ELSE Put(answers, fieldLabel,
                                     List(answers[fieldLabel].items \o values)),
                            globalThreshold, globalStdThreshold)

\* the deviations of the strips, strip after strip
AllStdValues(bubbleData, labels) ==
    [i \in 1..Len(labels) |-> Std(MeanValues_Of(Strip(bubbleData, labels[i])))]

\* steps 5 and 6: the thresholds of the sheet, then the strips
MarkSampled(bubbleData, labels, answers) ==
    MarkStrips(labels, bubbleData, answers,
               calculateGlobalThreshold(MeanValues_Of(bubbleData), 4),
               calculateGlobalThreshold(AllStdValues(bubbleData, labels), 1))

\* steps 4 to 6 on the bubbles that are sampled
MarkBubbles(bubbleData, answers) ==
    MarkSampled(bubbleData, StripLabels(bubbleData, {}), answers)

\* the steps of detectAndParseAnswers after the template is parsed
DetectParsed(image, templateJson, parsedTemplate) ==
    IF ~parsedTemplate.ok THEN parsedTemplate
    ELSE MarkBubbles(BubbleData(image, parsedTemplate.value.bubbles),
                     InitLabels(parsedTemplate.value.bubbles,
                                IF templateJson.fieldBlocks = Absent THEN <<>>
                                ELSE QRAnswers(templateJson.fieldBlocks[1], <<>>,
                                               image.decoded)))

\* the answers detectAndParseAnswers returns for an image and a template
DetectedAnswers(image, templateJson) ==
    DetectParsed(image, templateJson, parseTemplate(templateJson))

(***************************************************************************)
(* The template documents and sheets the normalizer and the detection are  *)
(* applied to.                                                             *)
(***************************************************************************)
BlockNames == {<< "M", "C", "Q" >>, QR_Code, << "Q", "R", "_", "I", "D" >>}

FieldTypeChoices ==
    {Absent, Some("QTYPE_MCQ5"), Some("QTYPE_INT"), Some("QTYPE_CUSTOM")}

BubbleValueChoices == {Absent, Some(<< "A" >>), Some(<< "A", "B" >>)}

FieldLabelChoices ==
    {Some(<< << "q", "1", ".", ".", "2" >> >>),
     Some(<< << "i", "d" >> >>),
     Some(<< << "q", "2", ".", ".", "1" >> >>)}

\* origins right of, left of, above and below a page of the default size
OutsideOrigins == {<< 900, 20 >>, << -100, 20 >>, << 20, -100 >>, << 20, 1300 >>}

\* blocks of every setting
FullBlocks ==
    [fieldType : FieldTypeChoices, bubbleValues : BubbleValueChoices,
     direction : {Absent, Some("horizontal"), Some("vertical")},
     fieldLabels : FieldLabelChoices,
     origin : {Absent} \cup {Some(origin) : origin \in OutsideOrigins},
     bubblesGap : {Absent, Some(10)},
     bubbleDimensions : {Absent}, labelsGap : {Absent}, emptyVal : {Absent}]

\* blocks that leave position and direction to the defaults
PlainBlocks ==
    {b \in FullBlocks :
        b.direction = Absent /\ b.origin = Absent /\ b.bubblesGap = Absent}

\* an object has each key once
DistinctNames(entries) ==
    \A i, j \in 1..Len(entries) : entries[i].name = entries[j].name => i = j

FieldBlockLists ==
    {<<>>}
    \cup {<< entry >> : entry \in [name : BlockNames, block : FullBlocks]}
    \cup {entries \in UNION {[1..n -> [name : BlockNames, block : PlainBlocks]] :
                               n \in 2..MaxBlocks} : DistinctNames(entries)}

RegionLists ==
    {<< [origin |-> [x |-> 10, y |-> 20],
         questions |-> [start |-> 1, end |-> 2, gap |-> Absent],
         options |-> [values |-> values, gap |-> Absent]] >> :
       values \in {Absent, Some(<< "A", "B" >>)}}

Layouts ==
    {Some([regions |-> Absent])}
    \cup {Some([regions |-> Some(regions)]) : regions \in RegionLists}

Document(fieldBlocks, layout) ==
    [fieldBlocks |-> fieldBlocks, layout |-> layout,
     pageDimensions |-> Absent, bubbleDimensions |-> Absent]

TemplateDocuments ==
    {Document(Some(entries), Absent) : entries \in FieldBlockLists}
    \cup {Document(Absent, layout) : layout \in Layouts \cup {Absent}}
    \cup {Document(Some(<<>>), layout) : layout \in Layouts}

Images ==
    [cols : {DefaultPageDimensions[1]}, rows : {DefaultPageDimensions[2]},
     dark : {{}, {"A", "0"}}, decoded : BOOLEAN]

\* the deviation of every strip of the sheet is a whole number
WholeStdsOf(bubbleData, labels) ==
    \A i \in 1..Len(labels) :
        WholeStd(MeanValues_Of(Strip(bubbleData, labels[i])))

WholeStdsSampled(bubbleData) ==
    WholeStdsOf(bubbleData, StripLabels(bubbleData, {}))

WholeStdsParsed(image, parsedTemplate) ==
    parsedTemplate.ok =>
        WholeStdsSampled(BubbleData(image, parsedTemplate.value.bubbles))

WholeStds(image, templateJson) ==
    WholeStdsParsed(image, parseTemplate(templateJson))

\* the block written out: the preset's values and direction in place of the
\* preset type
ExplicitBlock(fieldBlock) ==
    IF fieldBlock.fieldType # Absent
       /\ fieldBlock.fieldType[1] \in DOMAIN FIELD_TYPES
    THEN [fieldBlock EXCEPT
            !.fieldType = Absent,
            !.bubbleValues = Some(FIELD_TYPES[fieldBlock.fieldType[1]].bubbleValues),
            !.direction = Some(FIELD_TYPES[fieldBlock.fieldType[1]].direction)]
    ELSE fieldBlock

ExplicitDocument(templateJson) ==
    IF templateJson.fieldBlocks = Absent THEN templateJson
    ELSE [templateJson EXCEPT
            !.fieldBlocks =
                Some([i \in 1..Len(templateJson.fieldBlocks[1]) |->
                        [name |-> templateJson.fieldBlocks[1][i].name,
                         block |-> ExplicitBlock(templateJson.fieldBlocks[1][i].block)]])]

\* parseTemplate applied to a document, and to the document written out
NormalizeStep ==
    /\ study.phase = "document"
    /\ study' = [phase |-> "normalized", template |-> study.template,
                 result |-> parseTemplate(study.template),
                 explicit |-> parseTemplate(ExplicitDocument(study.template))]
    /\ ProgramUnchanged

\* the bubbles of the template that step 4 samples on the image
SampledBubbles(image, parsedTemplate) ==
    IF parsedTemplate.ok
    THEN [expected |-> parsedTemplate.value.bubbles,
          sampled |-> BubbleData(image, parsedTemplate.value.bubbles)]
    ELSE [expected |-> <<>>, sampled |-> <<>>]

\* detectAndParseAnswers applied to a rectified image and a document; the
\* blocks left out of the bubble list, the blocks decoded and the bubbles
\* sampled are noted
DetectStep ==
    /\ study.phase = "sheet"
    /\ LET entries == Default(study.template.fieldBlocks, <<>>)
       IN study' = [phase |-> "detected", template |-> study.template,
                    image |-> study.image,
                    result |-> DetectedAnswers(study.image, study.template),
                    bubbles |-> SampledBubbles(study.image,
                                               parseTemplate(study.template)),
                    excluded |-> {i \in 1..Len(entries) :
                                    isQRBlock(entries[i].name, entries[i].block)},
                    decoded |-> {i \in 1..Len(entries) :
                                   isQRBlockInDetection(entries[i].name,
                                                        entries[i].block)}]
    /\ ProgramUnchanged

TemplateInputs ==
    [phase : {"document"}, template : TemplateDocuments]
    \cup {in \in [phase : {"sheet"}, template : TemplateDocuments,
                  image : Images] : WholeStds(in.image, in.template)}

InitTemplate ==
    /\ Constructed
    /\ study \in TemplateInputs
    /\ picked = [files |-> [i \in 1..MaxFiles |-> "none"], template |-> "valid",
                 marker |-> "ok"]

NextTemplate ==
    \/ NormalizeStep
    \/ DetectStep

SpecTemplate == InitTemplate /\ [][NextTemplate]_vars


(***************************************************************************)
(* The ordering of four corner points.  A slot of the result is null       *)
(* (Absent) until a point is classified into it; a later point of the same *)
(* class replaces an earlier one.                                          *)
(***************************************************************************)
NoCorners == [tl |-> Absent, tr |-> Absent, br |-> Absent, bl |-> Absent]

\* points.reduce((sum, p) => sum + p.x, 0), and the same for y
SumX(points) == Sum([i \in 1..Len(points) |-> points[i].x])

SumY(points) == Sum([i \in 1..Len(points) |-> points[i].y])

\* the body of points.forEach: p.x < centerX is p.x * length < sum of the x
ClassifyPoint(corners, p, n, sumX, sumY) ==
    IF p.x * n < sumX /\ p.y * n < sumY THEN [corners EXCEPT !.tl = Some(p)]
    ELSE IF p.x * n >= sumX /\ p.y * n < sumY THEN [corners EXCEPT !.tr = Some(p)]
    ELSE IF p.x * n >= sumX /\ p.y * n >= sumY THEN [corners EXCEPT !.br = Some(p)]
    ELSE [corners EXCEPT !.bl = Some(p)]

\* the points classified one after the other, the i-th last
RECURSIVE ClassifyPoints(_, _, _)
ClassifyPoints(points, i, all) ==
    IF i = 0 THEN NoCorners
    ELSE ClassifyPoint(ClassifyPoints(points, i - 1, all), points[i],
                       Len(all), SumX(all), SumY(all))

\* return [tl, tr, br, bl]
CornerList(corners) == << corners.tl, corners.tr, corners.br, corners.bl >>

orderPoints(points) == CornerList(ClassifyPoints(points, Len(points), points))

\* approx is the list of the points of the rows of the Mat
sortCorners(approx) == CornerList(ClassifyPoints(approx, Len(approx), approx))

\* the points of the grid, and the lists of four different points
Coordinates == 0..MaxCoord

GridPoints == [x : Coordinates, y : Coordinates]

FourPoints ==
    {points \in [1..4 -> GridPoints] :
        \A i, j \in 1..4 : points[i] = points[j] => i = j}

\* orderPoints applied to the centres of the four markers
OrderPointsStep ==
    /\ study.phase = "points"
    /\ study' = [phase |-> "ordered", by |-> "orderPoints",
                 points |-> study.points, result |-> orderPoints(study.points)]
    /\ ProgramUnchanged

\* sortCorners applied to the four points of the page contour
SortCornersStep ==
    /\ study.phase = "points"
    /\ study' = [phase |-> "ordered", by |-> "sortCorners",
                 points |-> study.points, result |-> sortCorners(study.points)]
    /\ ProgramUnchanged

InitCorners ==
    /\ Constructed
    /\ study \in [phase : {"points"}, points : FourPoints]
    /\ picked = [files |-> [i \in 1..MaxFiles |-> "none"], template |-> "valid",
                 marker |-> "ok"]

NextCorners ==
    \/ OrderPointsStep
    \/ SortCornersStep

SpecCorners == InitCorners /\ [][NextCorners]_vars


(***************************************************************************)
(* OpenCVLoader (main thread): the loader object, its progress interval,   *)
(* its load timeout and the callbacks registered on it.  The runtime calls *)
(* onOpenCVReady once, at any time, or never.                              *)
(***************************************************************************)
PROGRESS_MAX_SIMULATED == 90

PROGRESS_COMPLETE == 100

\* the callbacks the page may register
CallbackNames == {"app", "page"}

\* new OpenCVLoader(): both timers of simulateProgress are set
LoaderConstructed ==
    [phase |-> "loader", isReady |-> FALSE,
     onReady |-> <<>>, onProgress |-> <<>>, onError |-> <<>>,
     progress |-> 0, interval |-> TRUE, timeout |-> TRUE,
     initialized |-> FALSE, registered |-> 0,
     shown |-> -1, invoked |-> <<>>]

\* callbacks.forEach(callback => callback(...)): one entry per callback called
Invoke(invoked, kind, callbacks) ==
    invoked \o [i \in 1..Len(callbacks) |-> [kind |-> kind, callback |-> callbacks[i]]]

\* notifyProgress(percent)
notifyProgress(loader, percent) ==
    IF percent < 0 \/ percent > 100 \/ loader.onProgress = <<>>
    THEN loader
    ELSE [loader EXCEPT !.shown = percent]

\* notifyError(error)
notifyError(loader) ==
    [loader EXCEPT !.invoked = Invoke(@, "onError", loader.onError)]

\* onOpenCVReady()
onOpenCVReady(loader) ==
    LET l1 == notifyProgress([loader EXCEPT !.isReady = TRUE, !.initialized = TRUE],
                             PROGRESS_COMPLETE)
    IN [l1 EXCEPT !.invoked = Invoke(@, "onReady", loader.onReady),
                  !.onReady = <<>>]

\* Math.random() * 5, * 3, * 2, * 0.5 in whole percent
Increments(progress) ==
    IF progress < 30 THEN {0, 2, 4}
    ELSE IF progress < 60 THEN {0, 1, 2}
    ELSE IF progress < 85 THEN {0, 1}
    ELSE {0}

Min2(a, b) == IF a <= b THEN a ELSE b

\* the interval callback of simulateProgress
ProgressInterval ==
    /\ study.phase = "loader"
    /\ study.interval
    /\ IF study.isReady
       THEN study' = notifyProgress([study EXCEPT !.progress = PROGRESS_COMPLETE,
                                                  !.interval = FALSE,
                                                  !.timeout = FALSE],
                                    PROGRESS_COMPLETE)
       ELSE \E inc \in Increments(study.progress) :
               LET p == Min2(study.progress + inc, PROGRESS_MAX_SIMULATED)
               IN study' = notifyProgress([study EXCEPT !.progress = p], p)
    /\ ProgramUnchanged

\* the timeout callback of simulateProgress
LoadTimeout ==
    /\ study.phase = "loader"
    /\ study.timeout
    /\ study' = IF ~study.isReady
                THEN notifyError([study EXCEPT !.timeout = FALSE,
                                               !.interval = FALSE])
                ELSE [study EXCEPT !.timeout = FALSE]
    /\ ProgramUnchanged

\* Module.onRuntimeInitialized calls onOpenCVReady
RuntimeInitialized ==
    /\ study.phase = "loader"
    /\ ~study.initialized
    /\ study' = onOpenCVReady(study)
    /\ ProgramUnchanged

\* onReady(callback)
RegisterOnReady(callback) ==
    /\ study.phase = "loader"
    /\ study.registered < MaxCallbacks
    /\ study' = IF study.isReady
                THEN [study EXCEPT !.registered = @ + 1,
                                   !.invoked = Invoke(@, "onReady", << callback >>)]
                ELSE [study EXCEPT !.registered = @ + 1,
                                   !.onReady = Append(@, callback)]
    /\ ProgramUnchanged

\* onProgress(callback)
RegisterOnProgress(callback) ==
    /\ study.phase = "loader"
    /\ study.registered < MaxCallbacks
    /\ study' = [study EXCEPT !.registered = @ + 1,
                              !.onProgress = Append(@, callback)]
    /\ ProgramUnchanged

\* onError(callback)
RegisterOnError(callback) ==
    /\ study.phase = "loader"
    /\ study.registered < MaxCallbacks
    /\ study' = [study EXCEPT !.registered = @ + 1,
                              !.onError = Append(@, callback)]
    /\ ProgramUnchanged

InitLoader ==
    /\ Constructed
    /\ study = LoaderConstructed
    /\ picked = [files |-> [i \in 1..MaxFiles |-> "none"], template |-> "valid",
                 marker |-> "ok"]

NextLoader ==
    \/ ProgressInterval
    \/ LoadTimeout
    \/ RuntimeInitialized
    \/ \E callback \in CallbackNames : RegisterOnReady(callback)
    \/ \E callback \in CallbackNames : RegisterOnProgress(callback)
    \/ \E callback \in CallbackNames : RegisterOnError(callback)

SpecLoader == InitLoader /\ [][NextLoader]_vars


(***************************************************************************)
(* Properties                                                              *)
(***************************************************************************)
IsPrefix(a, b) ==
    /\ Len(a) <= Len(b)
    /\ \A i \in 1..Len(a) : a[i] = b[i]

Last(q) == q[Len(q)]

RECURSIVE IsSubsequence(_, _)
IsSubsequence(a, b) ==
    IF a = <<>> THEN TRUE
    ELSE IF b = <<>> THEN FALSE
    ELSE IF Head(a) = Head(b) THEN IsSubsequence(Tail(a), Tail(b))
    ELSE IsSubsequence(a, Tail(b))

SheetTypes == {"process_image", "processOMR"}

SheetTags(q) == SelectSeq(q, LAMBDA t : t.type \in SheetTypes)

\* the fault of the selected image a result entry is about
FaultOf(entry) == picked.files[entry.file]

AlignmentErrors == {"cp.checkBoundary", "mk.validateMatch"}

\* every entry of the result list is about its own sheet: a success belongs to
\* a sheet that can be aligned and carries that sheet's data, an alignment
\* error belongs to a sheet that cannot be aligned
EntriesAreOwn ==
    \A i \in 1..Len(results) :
        /\ results[i].status = "success" =>
              /\ FaultOf(results[i]) = "none"
              /\ results[i].body.sheet = results[i].file
        /\ results[i].error \in AlignmentErrors => FaultOf(results[i]) = "blank"

\* the worker handles a sheet and the sheet fails
SheetFailsInWorker ==
    /\ Len(started') = Len(started) + 1
    /\ Last(started').error # ""

\* a failing sheet leaves what the following sheets read and the requests
\* that wait behind it
WorkerUnharmed ==
    /\ markerImage' = markerImage
    /\ isOpenCVReady' = isOpenCVReady
    /\ processingQueue' = processingQueue
    /\ inbox' = Tail(inbox)
    /\ Len(outbox') = Len(outbox) + 1

\* loop k of startBatch gets the error of its sheet
SheetErrorArrives(k) ==
    /\ loops[k].pc = "wait"
    /\ loops'[k].pc # "wait"
    /\ \/ outbox # <<>> /\ outbox' = Tail(outbox) /\ Head(outbox).error # ""
       \/ now' >= loops[k].deadline /\ now < loops[k].deadline

\* the error is recorded for that sheet and the loop goes on with the next
\* file, or ends regularly after the last one
ErrorRecordedLoopGoesOn(k) ==
    /\ Len(results') = Len(results) + 1
    /\ SubSeq(results', 1, Len(results)) = results
    /\ Last(results').file = loops[k].file.name
    /\ Last(results').status = "error"
    /\ \/ /\ loops'[k].pc = "read"
          /\ loops'[k].i = loops[k].i + 1
          /\ loops'[k].file = files[loops[k].i + 2]
          /\ bpIsProcessing' = bpIsProcessing
       \/ /\ loops'[k].pc = "done"
          /\ loops[k].i + 1 >= Len(files)
          /\ loops'[k].final = results'

C1_Step ==
    /\ SheetFailsInWorker => WorkerUnharmed
    /\ \A k \in LoopIds : SheetErrorArrives(k) => ErrorRecordedLoopGoesOn(k)

\* C1: in a batch a sheet that fails is recorded as failed for that sheet
\* only: the worker keeps what the other sheets read and the requests behind
\* it, the loop records the error and goes on with the next file, and every
\* entry of the result list stays that of its own sheet.
C1_FailureIsolated == [](EntriesAreOwn) /\ [][C1_Step]_vars

\* a failed sheet followed by a sheet that succeeded
C1_Witness ==
    \E i, j \in 1..Len(results) :
        /\ i < j
        /\ results[i].error \in AlignmentErrors
        /\ results[j].status = "success"

\* C2: a batch that ends holds exactly one entry for each sheet that was
\* submitted to it, in the order of submission.
C2_OnePerSheet ==
    \A k \in LoopIds :
        loops[k].pc = "done" =>
            /\ Len(loops[k].final) = Len(loops[k].submittedFiles)
            /\ \A i \in 1..Len(loops[k].final) :
                  loops[k].final[i].file = loops[k].submittedFiles[i].name

StartedIds == [i \in 1..Len(started) |-> started[i].id]

SubmittedSheetIds ==
    LET q == SheetTags(submitted)
    IN [i \in 1..Len(q) |-> AppId(q[i].n)]

\* C3: the worker starts the sheets in the order they were submitted, one at
\* a time: what it has started is a prefix of what was submitted, every sheet
\* before the last started one has got its terminal message, and a queued
\* sheet waits only while the worker is inside processNextInQueue.
C3_OneAtATimeFifo ==
    /\ IsPrefix(StartedIds, SubmittedSheetIds)
    /\ IsPrefix(finished, StartedIds)
    /\ Len(StartedIds) <= Len(finished) + 1
    /\ workerPc = "await" => isProcessing
    /\ workerPc = "idle" => processingQueue = <<>>

\* two sheets went through the queue
C3_Witness ==
    /\ Len(finished) >= 2
    /\ \A i \in 1..Len(started) : started[i].path = "queue"

\* C4: the sheets are delivered (resolved, rejected or timed out) to the
\* caller in the order they were submitted.
C4_DeliveredInOrder == IsPrefix(SheetTags(delivered), SheetTags(submitted))

\* two sheets were delivered, one of them as an error
C4_Witness ==
    /\ Len(SheetTags(delivered)) >= 2
    /\ \E i \in 1..Len(started) : started[i].error # ""

\* C5: with a template that cannot be normalized no sheet is processed and
\* no result entry carries the template error.
C5_TemplateErrorIsFatal ==
    /\ \A i \in 1..Len(started) :
          started[i].path = "batch" =>
              started[i].template = NoTemplate \/ TemplateParses(started[i].template)
    /\ \A i \in 1..Len(results) : results[i].error # "det.parseTemplate"

Stages == << "Normalizing", "Aligning", "Detecting" >>

\* C6: the stages a sheet goes through are Normalizing, Aligning, Detecting
\* in that order (a failing sheet stops on the way), and after the first
\* sheet of a batch no sheet normalizes the template again.
C6_StageOrder ==
    \A i \in 1..Len(started) :
        /\ IsSubsequence(started[i].stages, Stages)
        /\ i > 1 /\ started[i - 1].path = "batch" /\ started[i].path = "batch"
           /\ started[i - 1].template = started[i].template
             => "Normalizing" \notin Range(started[i].stages)

\* C7: after stop() no sheet that had not been started is sent to the worker.
C7_StopCancelsPending ==
    \A k \in LoopIds :
        loops[k].stopAt >= 0 =>
            ~(loops[k].pc = "wait" /\ loops[k].i > loops[k].stopAt)

Checkpoints == << 10, 20, 40, 60, 100 >>

\* C8: every sheet that was processed to the end had the progress messages
\* of load, preprocess, align, detect and finalize, in that order.
C8_ProgressAtCheckpoints ==
    \A i \in 1..Len(started) :
        started[i].error = "" /\ started[i].template # NoTemplate
            => IsSubsequence(Checkpoints, started[i].progress)

\* a batch that has loaded its marker and has sheets left
BatchUsesMarker ==
    \E k \in LoopIds :
        loops[k].pc \in {"read", "wait"} /\ loops[k].markerFile # NoFile

\* C9: while a batch that loaded a marker is processing its sheets the
\* marker of the worker is not replaced.
C9_MarkerReadOnly == [][BatchUsesMarker => markerImage' = markerImage]_vars

\* C10: when a processing step has ended, in success or in failure, no
\* buffer it allocated is left.
C10_BuffersReleased == study.phase = "done" => study.leaked = {}

\* C11: with a marker loaded, a sheet on which marker matching fails (the
\* best score of a quadrant is under the floor) is not failed with the
\* marker error: alignment goes on with the contour strategy.
C11_MarkerFailureFallsBack ==
    (study.phase = "done" /\ study.hasMarker /\ study.fault = "no_marker")
        => study.error # "mk.validateMatch"

\* the range token p{a}..{b}
RangeToken(p, a, b) == p \o NumberToString(a) \o DotDot \o NumberToString(b)

\* the non-empty beginnings of a string that hold no digit
LabelPrefixes(str) ==
    {SubSeq(str, 1, n) : n \in {m \in 1..Len(str) :
                                  \A i \in 1..m : ~IsDigit(str[i])}}

\* the numbers written somewhere in a string
NumbersIn(str) ==
    {parseInt(SubSeq(str, i, j)) :
        <<i, j>> \in {ij \in (1..Len(str)) \X (1..Len(str)) :
                        /\ ij[1] <= ij[2]
                        /\ \A k \in ij[1]..ij[2] : IsDigit(str[k])}}

\* C14: a range token p{a}..{b} with a < b expands to the b-a+1 labels
\* p{a}, p{a+1}, ..., p{b} in ascending order; with a >= b it is refused.
C14_RangeExpansion ==
    study.phase = "expanded" =>
        \A p \in LabelPrefixes(study.token) :
            \A a, b \in NumbersIn(study.token) :
                study.token = RangeToken(p, a, b) =>
                    IF a < b
                    THEN /\ study.result.ok
                         /\ study.result.value =
                                [k \in 1..(b - a + 1) |->
                                    p \o NumberToString(a + k - 1)]
                    ELSE ~study.result.ok

C14_Witness ==
    /\ study.phase = "expanded"
    /\ study.token = RangeToken(<< "q" >>, 0, 2)
    /\ study.result.ok
    /\ Len(study.result.value) = 3

\* the means in ascending order
Ascending(values) ==
    [i \in 1..Len(values) |->
        CHOOSE v \in Range(values) :
            /\ Cardinality({j \in 1..Len(values) : values[j] < v}) < i
            /\ i <= Cardinality({j \in 1..Len(values) : values[j] <= v})]

\* the positions i of a sorted list at which sorted[i+half] - sorted[i-half]
\* exists
Centres(sorted, half) == {i \in 1..Len(sorted) : i - half >= 1 /\ i + half <= Len(sorted)}

WindowGap(sorted, half, i) == sorted[i + half] - sorted[i - half]

\* the greatest of a non-empty set of numbers
Greatest(S) == CHOOSE v \in S : \A w \in S : w <= v

LargestGap(sorted, half) ==
    Greatest({WindowGap(sorted, half, i) : i \in Centres(sorted, half)})

\* the global threshold is the midpoint of a largest gap of half-window half
\* when that gap is over the minimum jump
GlobalIsMidpointOfLargestGap(half) ==
    LET sorted == Ascending(study.values)
    IN (Centres(sorted, half) # {} /\ LargestGap(sorted, half) > MIN_JUMP)
        => \E i \in Centres(sorted, half) :
              /\ WindowGap(sorted, half, i) = LargestGap(sorted, half)
              /\ study.globalThreshold = sorted[i - half] + sorted[i + half]

\* C17 as stated: with looseness L and half-window ceil((L+1)/2), the global
\* threshold is the midpoint of the largest gap sorted[i+half] - sorted[i-half]
\* whenever that gap exceeds the minimum jump of 25.
C17_GlobalThresholdCeil ==
    study.phase = "thresholds"
        => GlobalIsMidpointOfLargestGap((study.looseness + 2) \div 2)

\* C17, amended: the half-window is floor((L+1)/2); with it the global
\* threshold is the midpoint of the largest gap whenever that gap exceeds
\* the minimum jump of 25.
C17_GlobalThresholdFloor ==
    study.phase = "thresholds"
        => GlobalIsMidpointOfLargestGap((study.looseness + 1) \div 2)

\* the example of the specification: 9 and 199 are two places either side of
\* the third value, their midpoint is 104
C17_Witness ==
    /\ study.phase = "thresholds"
    /\ study.values = ExampleMeans
    /\ study.looseness = 4
    /\ study.globalThreshold = 9 + 199

\* the least of a non-empty set of numbers
Least(S) == CHOOSE v \in S : \A w \in S : v <= w

\* no two means are further apart than the minimum jump, so no gap of the
\* sorted means, over whatever window, exceeds it
NoGapExceedsFloor ==
    Greatest(Range(study.values)) - Least(Range(study.values)) <= MIN_JUMP

\* C18: when no gap of the sorted means exceeds the minimum jump the global
\* threshold is the greatest mean observed, so that on a sheet of equal means
\* no bubble registers as filled.
C18_DefaultsToMaximum ==
    (study.phase = "thresholds" /\ study.values # <<>> /\ NoGapExceedsFloor)
        => /\ study.globalThreshold = Doubled(Greatest(Range(study.values)))
           /\ Greatest(Range(study.values)) = Least(Range(study.values))
                  => study.filled = {}

\* the means split after the k-th smallest into a low and a high cluster: the
\* gap between the two is over the minimum jump, greater than every other gap
\* between neighbours and greater than the spread of either cluster
TwoClusters(sorted, k) ==
    LET gap == sorted[k + 1] - sorted[k]
    IN /\ gap > MIN_JUMP
       /\ \A j \in 1..(Len(sorted) - 1) : j # k => sorted[j + 1] - sorted[j] < gap
       /\ sorted[k] - sorted[1] < gap
       /\ sorted[Len(sorted)] - sorted[k + 1] < gap

BetweenClusters(sorted, k) ==
    /\ Doubled(sorted[k]) < study.globalThreshold
    /\ study.globalThreshold < Doubled(sorted[k + 1])

\* C19 as stated: for means that form a low and a high cluster separated by
\* the largest gap, the global threshold lies strictly between the highest
\* mean of the low cluster and the lowest mean of the high cluster.
C19_ThresholdBetweenClusters ==
    study.phase = "thresholds" =>
        LET sorted == Ascending(study.values)
        IN \A k \in 1..(Len(sorted) - 1) :
              TwoClusters(sorted, k) => BetweenClusters(sorted, k)

\* C19, amended: the same for sheets of at least 2*half+1 means, half being
\* floor((L+1)/2), that is at least five means under looseness 4.
C19_ThresholdBetweenClustersOfEnough ==
    study.phase = "thresholds" =>
        LET sorted == Ascending(study.values)
            half == (study.looseness + 1) \div 2
        IN \A k \in 1..(Len(sorted) - 1) :
              (TwoClusters(sorted, k) /\ Len(sorted) >= 2 * half + 1)
                  => BetweenClusters(sorted, k)

C19_Witness ==
    /\ study.phase = "thresholds"
    /\ study.values = ExampleMeans
    /\ study.looseness = 4
    /\ TwoClusters(Ascending(study.values), 4)
    /\ Doubled(11) < study.globalThreshold
    /\ study.globalThreshold < Doubled(199)

\* the local threshold is the midpoint of a largest jump between sorted
\* values `apart` places from each other when that jump is confident
LocalIsMidpointOfLargestJump(apart) ==
    LET sorted == Ascending(study.values)
        starts == 1..(Len(sorted) - apart)
        jumps == {sorted[i + apart] - sorted[i] : i \in starts}
    IN (starts # {} /\ Greatest(jumps) > MIN_JUMP + CONFIDENT_SURPLUS)
        => \E i \in starts :
              /\ sorted[i + apart] - sorted[i] = Greatest(jumps)
              /\ study.localThreshold = sorted[i] + sorted[i + apart]

\* C20: the local threshold of a strip comes from the largest jump between
\* immediately neighbouring values of its sorted means, and is the midpoint
\* of that jump when the jump is over the minimum jump plus the confidence
\* surplus.
C20_LocalFromNeighbours ==
    study.phase = "thresholds" => LocalIsMidpointOfLargestJump(1)
\* the document has neither fieldBlocks nor layout
NeitherKey(templateJson) ==
    templateJson.fieldBlocks = Absent /\ templateJson.layout = Absent

\* C15: normalizing a template document that has neither of the two top-level
\* keys fails with the template format error, and gives no bubble list; so
\* does the detection that normalizes it.
C15_NeitherKeyFails ==
    (study.phase \in {"normalized", "detected"} /\ NeitherKey(study.template))
        => /\ ~study.result.ok
           /\ study.result.error = UnknownTemplateFormat
           /\ study.result.value = <<>>

C15_Witness ==
    /\ study.phase = "normalized"
    /\ NeitherKey(study.template)
    /\ ~study.result.ok

\* the blocks of the document that name a preset type
PresetBlocks(templateJson) ==
    {i \in 1..Len(Default(templateJson.fieldBlocks, <<>>)) :
        LET fieldType == templateJson.fieldBlocks[1][i].block.fieldType
        IN fieldType # Absent /\ fieldType[1] \in DOMAIN FIELD_TYPES}

\* C16: a document whose blocks name preset types normalizes to exactly the
\* bubbles of the document in which these blocks spell out the preset's values
\* and direction instead, their other settings unchanged.
C16_PresetIsExplicit ==
    (study.phase = "normalized" /\ PresetBlocks(study.template) # {})
        => study.result = study.explicit

\* a preset block that gives bubbles although it lists other values itself
C16_Witness ==
    /\ study.phase = "normalized"
    /\ \E i \in PresetBlocks(study.template) :
          /\ study.template.fieldBlocks[1][i].block.bubbleValues = Some(<< "A" >>)
          /\ ~isQRBlock(study.template.fieldBlocks[1][i].name,
                        study.template.fieldBlocks[1][i].block)
    /\ study.result.ok
    /\ Len(study.result.value.bubbles) >= 5
    /\ study.result = study.explicit
\* the field blocks of the document, in order
BlocksOf(templateJson) == Default(templateJson.fieldBlocks, <<>>)

\* the labels the tokens of a block stand for
BlockLabels(fieldBlock) ==
    Range(parseFields(Default(fieldBlock.fieldLabels, <<>>)).value)

\* the question numbers of a region, as labels
RegionLabels(region) ==
    {NumberToString(q) : q \in region.questions.start..region.questions.end}

\* every field label that exists anywhere in the template
TemplateLabels(templateJson) ==
    UNION {BlockLabels(BlocksOf(templateJson)[i].block) :
             i \in 1..Len(BlocksOf(templateJson))}
    \cup (IF templateJson.layout = Absent
             \/ templateJson.layout[1].regions = Absent
          THEN {}
          ELSE UNION {RegionLabels(templateJson.layout[1].regions[1][i]) :
                        i \in 1..Len(templateJson.layout[1].regions[1])})

\* C12: every field label of a template of one of the two formats is a key of
\* the detection result of the sheet, whatever block it belongs to and whether
\* or not its bubbles could be sampled.
C12_EveryLabelInResult ==
    (/\ study.phase = "detected"
     /\ study.result.ok
     /\ study.template.fieldBlocks = Absent \/ study.template.layout = Absent)
        => TemplateLabels(study.template) \subseteq DOMAIN study.result.value

\* C13: a field block is left out of the bubble list exactly when its declared
\* type is the externally decoded one, and every block left out is given to
\* the decoder.
C13_ExcludedExactlyExternalAndDecoded ==
    (study.phase = "detected" /\ study.result.ok)
        => \A i \in 1..Len(BlocksOf(study.template)) :
              /\ i \in study.excluded
                   <=> BlocksOf(study.template)[i].block.fieldType
                          = Some("QTYPE_CUSTOM")
              /\ i \in study.excluded => i \in study.decoded

\* the jumps between immediate neighbours of the sorted means of the strip
NeighbourJumps(sorted) == {sorted[i + 1] - sorted[i] : i \in 1..(Len(sorted) - 1)}

\* the largest jump of the strip is not over the minimum jump plus the
\* confidence surplus
NotConfident(sorted) ==
    /\ Len(sorted) >= 2
    /\ Greatest(NeighbourJumps(sorted)) <= MIN_JUMP + CONFIDENT_SURPLUS

\* C21: when the largest jump of a strip is not confident, the local threshold
\* of a strip without outliers is the global threshold, and the local
\* threshold of a strip with an outlier is the low-confidence value of the
\* strip's own largest jump, its midpoint.
C21_NotConfidentRules ==
    (study.phase = "thresholds" /\ NotConfident(Ascending(study.values)))
        => LET sorted == Ascending(study.values)
           IN IF study.noOutliers
              THEN study.localThreshold = study.globalThreshold
              ELSE \E i \in 1..(Len(sorted) - 1) :
                      /\ sorted[i + 1] - sorted[i]
                            = Greatest(NeighbourJumps(sorted))
                      /\ study.localThreshold = sorted[i] + sorted[i + 1]

\* the bubbles of the strip whose mean is at most v
AtMost(v) == {i \in 1..Len(study.values) : study.values[i] <= v}

\* C22: a bubble is found filled iff its mean is strictly less than the local
\* threshold of its strip, and for a strip whose means form a low and a high
\* cluster with a confident jump between them exactly the bubbles of the low
\* cluster are found filled.
C22_BimodalFill ==
    study.phase = "thresholds" =>
        LET sorted == Ascending(study.values)
        IN /\ \A i \in 1..Len(study.values) :
                 i \in study.filled
                    <=> Doubled(study.values[i]) < study.localThreshold
           /\ \A k \in 1..(Len(sorted) - 1) :
                 (/\ TwoClusters(sorted, k)
                  /\ sorted[k + 1] - sorted[k] > MIN_JUMP + CONFIDENT_SURPLUS)
                     => study.filled = AtMost(sorted[k])

\* the strip of the specification: the bubbles of 20 and 22 are filled
C22_Witness ==
    /\ study.phase = "thresholds"
    /\ study.values = ExampleStrip
    /\ TwoClusters(Ascending(study.values), 2)
    /\ study.filled = {1, 2}

\* the footprint of the bubble lies fully outside the image, on some side
FullyOutside(image, bubble) ==
    \/ bubble.x + bubble.width <= 0
    \/ bubble.x >= image.cols
    \/ bubble.y + bubble.height <= 0
    \/ bubble.y >= image.rows

\* the bubble is among the sampled ones
IsSampled(bubble, sampled) ==
    \E i \in 1..Len(sampled) :
        /\ sampled[i].x = bubble.x
        /\ sampled[i].y = bubble.y
        /\ sampled[i].fieldLabel = bubble.fieldLabel
        /\ sampled[i].fieldValue = bubble.fieldValue

\* the value of the bubble is among the selections of its field
IsReported(bubble, answers) ==
    /\ bubble.fieldLabel \in DOMAIN answers
    /\ answers[bubble.fieldLabel].kind = "list"
    /\ bubble.fieldValue \in Range(answers[bubble.fieldLabel].items)

\* C23: a bubble of a template of one block whose footprint lies fully outside
\* the image, on whatever side, is not sampled, so that it gives no mean to any
\* threshold, is not reported as filled, and the sheet does not fail.
C23_OutsideIsSkipped ==
    (study.phase = "detected" /\ Len(BlocksOf(study.template)) = 1)
        => \A i \in 1..Len(study.bubbles.expected) :
              FullyOutside(study.image, study.bubbles.expected[i])
                 => /\ study.result.ok
                    /\ ~IsSampled(study.bubbles.expected[i], study.bubbles.sampled)
                    /\ ~IsReported(study.bubbles.expected[i], study.result.value)

\* (b - a) x (c - b): positive when a, b, c turn clockwise on the image, whose
\* y axis points down
Cross(a, b, c) == (b.x - a.x) * (c.y - b.y) - (b.y - a.y) * (c.x - b.x)

\* the four points, in this order, are the corners of a convex quadrilateral
\* gone round clockwise
ClockwiseQuad(q) ==
    \A i \in 1..4 : Cross(q[i], q[(i % 4) + 1], q[((i + 1) % 4) + 1]) > 0

\* the four points are the corners of a convex quadrilateral, in some order
IsQuad(points) ==
    \E order \in [1..4 -> 1..4] :
        /\ \A i, j \in 1..4 : order[i] = order[j] => i = j
        /\ ClockwiseQuad([i \in 1..4 |-> points[order[i]]])

\* C24: ordering the four corners of a quadrilateral returns the same four
\* points, each exactly once, and in clockwise order.
C24_OrderedClockwise ==
    (study.phase = "ordered" /\ IsQuad(study.points))
        => /\ \A i \in 1..4 : study.result[i] # Absent
           /\ {study.result[i][1] : i \in 1..4} = Range(study.points)
           /\ ClockwiseQuad([i \in 1..4 |-> study.result[i][1]])

(***************************************************************************)
(* Message timeouts on the main thread                                     *)
(***************************************************************************)
\* startBatch invocation k is suspended on a reply of the worker
AwaitsReply(k) == loops[k].pc \in {"marker", "wait"}

\* the request invocation k waits for has a 30 s timer that can still reject it
HasLiveTimer(k) ==
    /\ loops[k].seq \in LiveTimers
    /\ loops[k].msgId.n + TIMEOUT_MS = 1000000 + loops[k].deadline

EveryAwaitedRequestHasTimer ==
    \A k \in LoopIds : AwaitsReply(k) => HasLiveTimer(k)

\* a step of the main thread that settles a request without a message of the
\* worker being dispatched: its timer has fired
TimerRejects ==
    /\ \A k \in LoopIds :
          (loops[k].pc = "wait" /\ outbox' = outbox /\ loops'[k].pc # "wait")
          => /\ now' >= loops[k].deadline
             /\ results' = Append(results,
                                  [file |-> loops[k].file.name, status |-> "error",
                                   error |-> "timeout", body |-> NoBody])
             /\ \A i \in 1..Len(listeners') : listeners'[i].loop # k
    /\ \A n \in DOMAIN pendingRequests :
          (outbox' = outbox /\ n \notin DOMAIN pendingRequests')
          => /\ now' >= pendingRequests[n].deadline
             /\ delivered' = Append(delivered, AppTag(n, pendingRequests[n].type))

\* the ids a message of the worker can still be paired with
AwaitedIds ==
    {AppId(n) : n \in DOMAIN pendingRequests}
    \cup {listeners[i].id : i \in 1..Len(listeners)}

\* a reply whose request is no longer awaited is dropped
LateReplyIgnored ==
    (outbox # <<>> /\ outbox' = Tail(outbox) /\ Head(outbox).id \notin AwaitedIds)
    => UNCHANGED <<results, loops, listeners, bpIsProcessing, currentIndex,
                   delivered, pendingRequests>>

\* C25: a request to the worker that got no reply within 30 seconds is rejected
\* with a timeout error (every request the main thread waits for has a live 30 s
\* timer, and the timer's firing rejects it), and a reply that arrives after the
\* timeout has no effect.
C25_TimeoutsHandled ==
    [](EveryAwaitedRequestHasTimer) /\ [][TimerRejects /\ LateReplyIgnored]_vars

(***************************************************************************)
(* Pairing of replies and requests                                         *)
(***************************************************************************)
\* the ids of the requests whose reply the main thread waits for, one entry
\* per request
IdsInFlight ==
    [i \in 1..Len(listeners) |-> listeners[i].id]
    \o [i \in 1..Cardinality(DOMAIN pendingRequests) |->
          AppId(CHOOSE n \in DOMAIN pendingRequests :
                   Cardinality({j \in DOMAIN pendingRequests : j < n}) = i - 1)]

InFlightIdsDistinct ==
    \A i, j \in 1..Len(IdsInFlight) : i # j => IdsInFlight[i] # IdsInFlight[j]

\* the startBatch invocations and application requests one step settles
SettledLoops ==
    {k \in LoopIds : AwaitsReply(k)
                     /\ (loops'[k].pc # loops[k].pc \/ loops'[k].i # loops[k].i)}

SettledAppRequests == DOMAIN pendingRequests \ DOMAIN pendingRequests'

\* a dispatched message of the worker settles requests of its own id only, and
\* not more than one
ReplySettlesOwnRequest ==
    (outbox # <<>> /\ outbox' = Tail(outbox))
    => /\ \A k \in SettledLoops : loops[k].msgId = Head(outbox).id
       /\ \A n \in SettledAppRequests : AppId(n) = Head(outbox).id
       /\ Cardinality(SettledLoops) + Cardinality(SettledAppRequests) <= 1

\* C26: the ids of the requests in flight are pairwise distinct, and a reply
\* resolves or rejects only the one request that carries its id
C26_UniqueIdPairing ==
    [](InFlightIdsDistinct) /\ [][ReplySettlesOwnRequest]_vars

(***************************************************************************)
(* Every request of the worker gets its terminal message                   *)
(***************************************************************************)
\* the messages the worker posts in a step
Posted ==
    IF Len(outbox') >= Len(outbox)
       /\ SubSeq(outbox', 1, Len(outbox)) = outbox
    THEN SubSeq(outbox', Len(outbox) + 1, Len(outbox'))
    ELSE <<>>

IdsOf(messages) == [i \in 1..Len(messages) |-> messages[i].id]

\* the ids of the terminal messages (result or error) posted in a step
TerminalIds ==
    IdsOf(SelectSeq(Posted, LAMBDA m : m.type \in {"result", "error"}))

\* the request self.onmessage answers before it returns
HandledAtOnce ==
    IF inbox # <<>> /\ inbox' = Tail(inbox)
       /\ Head(inbox).type \notin {"init", "process_image", "processOMR"}
    THEN << Head(inbox).id >> ELSE <<>>

\* the queued process_image request that processNextInQueue runs in this step
RunFromQueue ==
    IF Len(started') > Len(started) /\ started'[Len(started')].path = "queue"
    THEN << started'[Len(started')].id >> ELSE <<>>

\* the init request whose polling ends in this step
InitEnded ==
    IF initState.phase = "polling" /\ initState'.phase # "polling"
    THEN << initState.id >> ELSE <<>>

\* the terminal messages of a step are those of the requests it completes
AnsweredOnce == TerminalIds = HandledAtOnce \o RunFromQueue \o InitEnded

\* no request is left in the queue of an idle worker
NothingLeftQueued == workerPc = "idle" => processingQueue = <<>>

\* C27: every message with an id that the worker receives is answered by
\* exactly one terminal message (result or error) carrying that id: the step
\* that completes a request posts one terminal message with the request's id,
\* no other terminal message is posted, and no request stays queued.
C27_EveryRequestAnswered ==
    [](NothingLeftQueued) /\ [][AnsweredOnce]_vars

(***************************************************************************)
(* One batch at a time                                                     *)
(***************************************************************************)
\* the startBatch invocations that have been accepted and have not returned
RunningLoops == {k \in LoopIds : loops[k].pc \notin {"idle", "done", "thrown"}}

FileNames(entries) == [i \in 1..Len(entries) |-> entries[i].file]

SheetNames(sheets) == [i \in 1..Len(sheets) |-> sheets[i].name]

\* what a batch returns is one entry per file of its own list, in order
ResultsOfOneBatch ==
    \A k \in LoopIds :
       loops[k].pc = "done"
       => FileNames(loops[k].final) = SheetNames(loops[k].submittedFiles)

\* C28: at most one startBatch loop runs on the BatchProcessor at any time
\* (a startBatch call is accepted only when no earlier one is still running,
\* also after stop()), and the results a batch returns are not interleaved
\* with those of another batch.
C28_OneBatchAtATime ==
    Cardinality(RunningLoops) <= 1 /\ ResultsOfOneBatch

(***************************************************************************)
(* The running batch's files and results                                   *)
(***************************************************************************)
\* while a startBatch loop runs, a step leaves the file list alone and only
\* adds to the results
BatchStateKept ==
    RunningLoops # {} => /\ files' = files
                         /\ IsPrefix(results, results')

\* a startBatch call made while isProcessing is set throws before it assigns
StartRejectedWhileProcessing == bpIsProcessing => ~ENABLED StartBatch

\* C29: while a batch is running, neither a setFiles call nor a startBatch call
\* that is rejected for the batch in progress changes the list of files the
\* batch processes or the results accumulated so far.
C29_RunningBatchUntouched ==
    [](StartRejectedWhileProcessing) /\ [][BatchStateKept]_vars

(***************************************************************************)
(* Outcomes of the OpenCVLoader                                            *)
(***************************************************************************)
\* an onError callback was called before an onReady callback, or after one
ErrorThenReady ==
    \E i, j \in 1..Len(study.invoked) :
       i < j /\ study.invoked[i].kind = "onError" /\ study.invoked[j].kind = "onReady"

ReadyThenError ==
    \E i, j \in 1..Len(study.invoked) :
       i < j /\ study.invoked[i].kind = "onReady" /\ study.invoked[j].kind = "onError"

\* once the loader is ready the timeout no longer notifies an error
NoErrorOnceReady ==
    study.isReady => \A i \in 1..Len(study'.invoked) :
                        i > Len(study.invoked) => study'.invoked[i].kind # "onError"

\* C30: the error and ready outcomes of an OpenCVLoader exclude each other:
\* after the load-timeout error has been notified to the onError callbacks no
\* onReady callback is called, and once the loader is ready no onError
\* callback is called.
C30_ErrorAndReadyExclusive ==
    [](~ErrorThenReady /\ ~ReadyThenError) /\ [][NoErrorOnceReady]_vars

====
